---- MODULE Spec2Model ----
(***************************************************************************)
(* Model of the ai-illustrator-live backend (server/index.js): the single  *)
(* in-memory session, the rolling transcript store, the generation         *)
(* pipeline (summarise -> prompt -> image) with its in-progress / pending  *)
(* flags, the batch transcription endpoint and the realtime gateway state. *)
(* Every HTTP handler, websocket callback and promise continuation is one  *)
(* action: Node runs each of them to completion between two awaits.        *)
(* Times are Date.now() values in milliseconds.                            *)
(***************************************************************************)
EXTENDS Integers, Sequences, FiniteSets, TLC

\* ------------------------------------------------------------------ bounds
\* client requests (HTTP calls, websocket connections) in one behaviour
MaxRequests == 6
\* utterances the upstream completes in one behaviour
MaxUtterances == 1
\* utterances the upstream completes in the ordering specification
MaxOrderedUtterances == 2
\* client requests in one behaviour of the transcript-store specification
MaxStoreRequests == 3
\* clock ticks in one behaviour of the transcript-store specification
MaxTicks == 2
\* client requests in one behaviour of the session-lifecycle specification
MaxSessionRequests == 5
\* client requests in one behaviour of the image-cap specification
MaxCapRequests == 24
\* client requests in a behaviour of the pipeline specification
MaxPipelineRequests == 5
\* client requests in a behaviour of the transcript specification
MaxTranscriptRequests == 3
\* client requests in a behaviour of the configuration specification
MaxConfigRequests == 3
\* client requests in a behaviour of the streaming specification
MaxStreamRequests == 5
\* client requests in a behaviour of the frame-routing specification
MaxFrameRequests == 5
\* client requests in a behaviour of the specification with fair stages
MaxLiveRequests == 5

\* ------------------------------------------------------- program constants
Null == "null"
None == << >>
Some(x) == <<x>>

PHASES == {"Vision", "Mission", "Strategic objectives", "KPIs", "Other"}

MaxImages == 20
MinUploadBytes == 1024

defaultConfig ==
  [ summarizationWindowMinutes |-> 5,
    transcriptWindowMinutes |-> 10,
    phase |-> "Vision",
    languageMode |-> "auto",
    workshopType |-> "NCIM Strategy Workshop",
    autoIntervalMinutes |-> 5,
    imageSize |-> "1024x1024",
    stylePreset |-> "Flat" ]

makeRealtimeState ==
  [ upstream |-> 0, clients |-> {}, status |-> "disconnected",
    lastMime |-> "audio/webm" ]

\* one clock tick: six minutes of wall-clock time
TickMs == 6 * 60 * 1000

\* --------------------------------------------------------- input alphabets
RequestKeys == {"", "sk-req"}
EnvKeys == {Null, "sk-env"}
StartPhases == {"", "Mission", "Bogus"}
ConfigPhases == {"", "KPIs", "Bogus"}
ConfigWindows == {0, 15}
ConfigLanguages == {"", "arabic"}
ConfigIntervals == {0, 10}
ConfigSizes == {"", "512x512"}
\* what the recognizer may return, as sequences of characters
RawTexts == { <<" ", "o", "k", ".", " ">>, <<"?", "!">> }
\* what the cleanup model may return (empty: no content in the response)
PolishOutputs == { << >>, <<" ", "o", "k", ".">>, <<".", ".", ".">> }
SummaryTexts == {"summary"}
PromptTexts == {"prompt"}
ImagePayloads == {"", "b64"}

RunIds == 1..MaxRequests
UploadIds == 1..MaxRequests
ConnIds == 1..MaxRequests
UpstreamIds == 1..MaxRequests
PolishIds == 1..MaxOrderedUtterances
UtteranceIds == 1..MaxUtterances

VARIABLES
  now,                  \* Date.now()
  envKey,               \* process.env.OPENAI_API_KEY
  realtimeEnabled,      \* REALTIME_ENABLED && !MOCK_OPENAI
  active, apiKey, config, transcripts, images, lastSummary, lastPrompt,
  generationInProgress, pendingTrigger, lastError, realtime,   \* session
  runs,                 \* runGeneration invocations awaiting a stage
  uploads,              \* /api/audio requests awaiting transcribeAudio
  upstreams,            \* realtime upstream sockets
  conns,                \* websocket connections of /ws/audio
  rt,                   \* realtime bridge: transcript cleanup calls in
                        \* flight, audio chunks awaiting their upstream
  nextImageId,          \* uuid() source
  epoch,                \* number of resetSession calls so far
  requests,             \* client requests received so far
  queuedSince,          \* triggers queued since pendingTrigger was last clear
  step                  \* what the last handler did (observation record)

sessionVars == <<active, apiKey, config, transcripts, images, lastSummary,
                 lastPrompt, generationInProgress, pendingTrigger, lastError,
                 realtime>>
vars == <<now, envKey, realtimeEnabled, active, apiKey, config, transcripts,
          images, lastSummary, lastPrompt, generationInProgress,
          pendingTrigger, lastError, realtime, runs, uploads, upstreams,
          conns, rt, nextImageId, epoch, requests, queuedSince, step>>

\* ---------------------------------------------------------------- helpers
\* queued: generate triggers answered "queued" while the run was executing
NoRun == [pc |-> "new", kind |-> "none", epoch |-> 0, summary |-> "",
          prompt |-> "", phaseSent |-> "", queued |-> 0]
NoUpload == [pc |-> "new", epoch |-> 0, calls |-> 0, transcodes |-> 0]
NoPolish == [pc |-> "new", text |-> << >>, itemId |-> 0, epoch |-> 0]
\* an audio chunk whose handler awaits ensureRealtimeUpstream: the
\* connection it came from, its arrival number, "pcm" or "decoded"
NoFrame == [conn |-> 0, seq |-> 0, kind |-> ""]
\* decoder: the input format the connection's ffmpeg process was spawned
\* with; started: a start message of it was acknowledged; ownMime: the
\* container its own start messages named; erred: it has been sent an
\* error event (the last three are history, not program state)
NoConn == [state |-> "new", started |-> FALSE,
           passthroughPcm |-> FALSE, transcoder |-> FALSE,
           decoder |-> "", ownMime |-> "audio/webm", erred |-> FALSE]

\* the observation record of one handler step
NoStep == [op |-> "init", arg |-> "", stale |-> FALSE, result |-> "none",
           error |-> Null,
           image |-> None, started |-> 0, remoteCalls |-> 0, run |-> 0,
           runKind |-> "none", finished |-> 0, failed |-> 0, reruns |-> 0,
           queuedBefore |-> 0, queuedDuring |-> 0, appended |-> 0,
           trimmed |-> 0, dropped |-> None, id |-> 0, size |-> 0,
           upload |-> 0, conn |-> 0, ready |-> 0, forwarded |-> 0,
           spawned |-> 0, emitted |-> None, event |-> None, sent |-> {},
           timestamp |-> 0, patch |-> None, config |-> None,
           update |-> None, killed |-> 0, frame |-> 0, kind |-> ""]

Executing(r) == runs[r].pc \in {"summarise", "prompt", "image"}
ExecutingRuns == {r \in RunIds : Executing(r)}
FreeRun == CHOOSE r \in RunIds : runs[r].pc = "new" /\
              \A q \in RunIds : runs[q].pc = "new" => r <= q
FreeUpload == CHOOSE u \in UploadIds : uploads[u].pc = "new" /\
              \A q \in UploadIds : uploads[q].pc = "new" => u <= q
FreePolish == CHOOSE q \in PolishIds : rt.polishes[q].pc = "new" /\
              \A o \in PolishIds : rt.polishes[o].pc = "new" => q <= o
FreeConn == CHOOSE c \in ConnIds : conns[c].state = "new" /\
              \A q \in ConnIds : conns[q].state = "new" => c <= q
FreeUpstream == CHOOSE u \in UpstreamIds : upstreams[u] = "new" /\
              \A q \in UpstreamIds : upstreams[q] = "new" => u <= q
Obs(op) == [NoStep EXCEPT !.op = op]

\* ------------------------------------------------------- configuration
\* JS `a || b` on strings and on numbers
OrStr(a, b) == IF a = "" \/ a = Null THEN b ELSE a
OrNum(a, b) == IF a = 0 THEN b ELSE a

\* a string field of a request body ('' when the body does not carry it)
StrField(req, f) == IF f \in DOMAIN req THEN req[f] ELSE ""

\* faulty variant: the merged phase is kept whatever it is
setSessionConfigKeepsPhase(merged) ==
  LET c2 == IF merged.summarizationWindowMinutes = 0
            THEN [merged EXCEPT !.summarizationWindowMinutes =
                                   defaultConfig.summarizationWindowMinutes]
            ELSE merged
  IN IF c2.transcriptWindowMinutes = 0
     THEN [c2 EXCEPT !.transcriptWindowMinutes =
                        defaultConfig.transcriptWindowMinutes]
     ELSE c2

\* setSessionConfig, after the caller's spread of `updates` over the config
setSessionConfig(merged) ==
  LET c1 == IF merged.phase \in PHASES THEN merged
            ELSE [merged EXCEPT !.phase = "Vision"]
      c2 == IF c1.summarizationWindowMinutes = 0
            THEN [c1 EXCEPT !.summarizationWindowMinutes =
                               defaultConfig.summarizationWindowMinutes]
            ELSE c1
  IN IF c2.transcriptWindowMinutes = 0
     THEN [c2 EXCEPT !.transcriptWindowMinutes =
                        defaultConfig.transcriptWindowMinutes]
     ELSE c2

\* ------------------------------------------------------- text helpers
AlphaChars == {"O", "a", "h", "i", "k", "o"}     \* [A-Za-z] and Arabic
PunctChars == {".", "!", "?"}                    \* \p{P} and \p{S}
SpaceChars == {" "}

RECURSIVE TrimStart(_)
TrimStart(t) ==
  IF t # << >> /\ Head(t) \in SpaceChars THEN TrimStart(Tail(t)) ELSE t
RECURSIVE TrimEnd(_)
TrimEnd(t) ==
  IF t # << >> /\ t[Len(t)] \in SpaceChars
  THEN TrimEnd(SubSeq(t, 1, Len(t) - 1)) ELSE t
Trim(t) == TrimEnd(TrimStart(t))

\* sanitizeTranscript: '' for empty, punctuation-only and tiny non-alphabetic
\* texts, otherwise the trimmed text
sanitizeTranscript(text) ==
  LET cleaned == Trim(text)
      alphaCount == Cardinality({i \in 1..Len(cleaned) :
                                   cleaned[i] \in AlphaChars})
      punctOnly == cleaned # << >> /\
                   \A i \in 1..Len(cleaned) : cleaned[i] \in PunctChars
  IN IF cleaned = << >> THEN << >>
     ELSE IF punctOnly THEN << >>
     ELSE IF Len(cleaned) < 3 /\ alphaCount < 2 THEN << >>
     ELSE cleaned

\* the texts transcribeAudio can resolve with (it returns the result of
\* maybePolishTranscript, which sanitizes)
Texts == {sanitizeTranscript(t) : t \in RawTexts} \ {<< >>}

\* texts.join(' ')
RECURSIVE JoinSpace(_)
JoinSpace(ts) ==
  IF ts = << >> THEN << >>
  ELSE IF Len(ts) = 1 THEN ts[1]
  ELSE ts[1] \o <<" ">> \o JoinSpace(Tail(ts))

\* ---------------------------------------------------- transcript store
InWindow(entry, minutes, t) == entry.timestamp >= t - minutes * 60 * 1000

\* faulty variant: the filtered list is not stored back
trimNothing(list, cfg, t) == list

trimTranscripts(list, cfg, t) ==
  SelectSeq(list, LAMBDA e : InWindow(e, cfg.transcriptWindowMinutes, t))

\* faulty variant: the window is not applied to the stored entries
WindowEntriesUnfiltered(list, minutes, t) == list

WindowEntries(list, minutes, t) ==
  SelectSeq(list, LAMBDA e : InWindow(e, minutes, t))

\* faulty variant: the summary is fed from the whole stored transcript
getStoredTranscriptText ==
  Trim(JoinSpace([i \in 1..Len(transcripts) |-> transcripts[i].text]))

\* the texts of the entries in the summarization window, joined and trimmed
getRecentTranscriptText ==
  LET es == WindowEntries(transcripts, config.summarizationWindowMinutes, now)
  IN Trim(JoinSpace([i \in 1..Len(es) |-> es[i].text]))

\* session.transcripts.push(entry); trimTranscripts(); itemId 0 stands for
\* the entry of a batch upload, which has no itemId
appendTranscript(text, itemId) ==
  trimTranscripts(
    Append(transcripts, [text |-> text, timestamp |-> now, itemId |-> itemId]),
    config, now)

\* getClient() succeeds: a key in the session or in the environment
ClientAvailable == apiKey # Null \/ envKey # Null

\* ------------------------------------------------------------- Init
\* the process after startup, whatever AII_REALTIME_ENABLED says
InitSession ==
  /\ now = 0
  /\ envKey \in EnvKeys
  /\ active = FALSE
  /\ apiKey = Null
  /\ config = defaultConfig
  /\ transcripts = << >>
  /\ images = << >>
  /\ lastSummary = None
  /\ lastPrompt = Null
  /\ generationInProgress = FALSE
  /\ pendingTrigger = FALSE
  /\ lastError = Null
  /\ realtime = makeRealtimeState
  /\ runs = [r \in RunIds |-> NoRun]
  /\ uploads = [u \in UploadIds |-> NoUpload]
  /\ upstreams = [u \in UpstreamIds |-> "new"]
  /\ conns = [c \in ConnIds |-> NoConn]
  /\ rt = [polishes |-> [p \in PolishIds |-> NoPolish],
           frames |-> [u \in UpstreamIds |-> NoFrame]]
  /\ nextImageId = 1
  /\ epoch = 0
  /\ requests = 0
  /\ queuedSince = 0
  /\ step = NoStep

\* realtime processing enabled, the default
Init == realtimeEnabled = TRUE /\ InitSession

\* realtime processing enabled or disabled by the environment
InitGateway == realtimeEnabled \in BOOLEAN /\ InitSession

\* ------------------------------------------------------- the clock
Tick ==
  /\ now' = now + TickMs
  /\ step' = Obs("tick")
  /\ UNCHANGED <<envKey, realtimeEnabled, sessionVars, runs, uploads,
                 upstreams, conns, rt, nextImageId, epoch, queuedSince>>

\* ------------------------------------------------- session lifecycle
\* teardownRealtime: close() on the upstream handle and on every listener
upstreamsAfterTeardown ==
  [u \in UpstreamIds |->
     IF u = realtime.upstream THEN "closed" ELSE upstreams[u]]
\* faulty variant: teardownRealtime drops the listener set without closing it
connsLeftOpen == conns

connsAfterTeardown ==
  [c \in ConnIds |->
     IF c \in realtime.clients /\ conns[c].state = "open"
     THEN [conns[c] EXCEPT !.state = "closing"] ELSE conns[c]]

\* faulty variant: the fresh session object inherits the queued-trigger flag
resetSessionKeepsPending ==
  /\ conns' = connsAfterTeardown
  /\ transcripts' = << >>
  /\ images' = << >>
  /\ lastSummary' = None
  /\ lastPrompt' = Null
  /\ generationInProgress' = FALSE
  /\ pendingTrigger' = pendingTrigger
  /\ lastError' = Null
  /\ epoch' = epoch + 1
  /\ queuedSince' = queuedSince

\* resetSession: teardownRealtime, then a fresh session object
resetSession ==
  /\ conns' = connsAfterTeardown
  /\ transcripts' = << >>
  /\ images' = << >>
  /\ lastSummary' = None
  /\ lastPrompt' = Null
  /\ generationInProgress' = FALSE
  /\ pendingTrigger' = FALSE
  /\ lastError' = Null
  /\ epoch' = epoch + 1
  /\ queuedSince' = 0

StartRequests ==
  [apiKey : RequestKeys, phase : StartPhases,
   summarizationWindowMinutes : ConfigWindows,
   languageMode : ConfigLanguages]
CoreStartRequests ==
  [apiKey : RequestKeys, phase : {""}, summarizationWindowMinutes : {0}]

\* the config object handed to setSessionConfig by /api/session/start
startConfig(req) ==
  setSessionConfig(
    [defaultConfig EXCEPT
       !.summarizationWindowMinutes =
          OrNum(req.summarizationWindowMinutes,
                defaultConfig.summarizationWindowMinutes),
       !.transcriptWindowMinutes = defaultConfig.transcriptWindowMinutes,
       !.languageMode =
          OrStr(StrField(req, "languageMode"), defaultConfig.languageMode),
       !.workshopType =
          OrStr(StrField(req, "workshopType"), defaultConfig.workshopType),
       !.imageSize =
          OrStr(StrField(req, "imageSize"), defaultConfig.imageSize),
       !.stylePreset =
          OrStr(StrField(req, "stylePreset"), defaultConfig.stylePreset),
       !.phase = OrStr(req.phase, defaultConfig.phase)])

\* faulty variant: resetSession is called before the credential check
SessionStartRejectedAfterReset(req) ==
  /\ req.apiKey = "" /\ envKey = Null
  /\ resetSession
  /\ active' = FALSE
  /\ apiKey' = Null
  /\ config' = defaultConfig
  /\ realtime' = makeRealtimeState
  /\ upstreams' = upstreamsAfterTeardown
  /\ step' = [Obs("start") EXCEPT !.arg = req.apiKey, !.result = "error",
                !.error = "API key is required to start a session",
                !.patch = Some(req)]
  /\ UNCHANGED <<now, envKey, realtimeEnabled, runs, uploads, nextImageId, rt>>

\* POST /api/session/start without any credential: 400, nothing touched
SessionStartRejected(req) ==
  /\ req.apiKey = "" /\ envKey = Null
  /\ step' = [Obs("start") EXCEPT !.arg = req.apiKey, !.result = "error",
                !.error = "API key is required to start a session",
                !.patch = Some(req)]
  /\ UNCHANGED <<now, envKey, realtimeEnabled, sessionVars, runs, uploads,
                 upstreams, conns, rt, nextImageId, epoch, queuedSince>>

\* POST /api/session/start with a credential: resetSession, activate, apply
\* the config, and start (not await) ensureRealtimeUpstream
SessionStartAccepted(req) ==
  /\ ~(req.apiKey = "" /\ envKey = Null)
  /\ resetSession
  /\ active' = TRUE
  /\ apiKey' = OrStr(req.apiKey, envKey)
  /\ config' = startConfig(req)
  /\ IF realtimeEnabled
     THEN /\ realtime' = [makeRealtimeState EXCEPT !.status = "connecting"]
          /\ upstreams' =
               [upstreamsAfterTeardown EXCEPT ![FreeUpstream] = "connecting"]
     ELSE /\ realtime' = makeRealtimeState
          /\ upstreams' = upstreamsAfterTeardown
  /\ step' = [Obs("start") EXCEPT !.arg = req.apiKey, !.result = "ok",
                !.patch = Some(req), !.config = Some(startConfig(req))]
  /\ UNCHANGED <<now, envKey, realtimeEnabled, runs, uploads, nextImageId, rt>>

SessionStart(req) == SessionStartRejected(req) \/ SessionStartAccepted(req)

\* POST /api/session/end
SessionEnd ==
  /\ resetSession
  /\ active' = FALSE
  /\ apiKey' = Null
  /\ config' = defaultConfig
  /\ realtime' = makeRealtimeState
  /\ upstreams' = upstreamsAfterTeardown
  /\ step' = [Obs("end") EXCEPT !.result = "ok"]
  /\ UNCHANGED <<now, envKey, realtimeEnabled, runs, uploads, nextImageId, rt>>

\* ----------------------------------------------- generation pipeline
\* runGeneration up to its first await: the error it throws, or Null when
\* the summarise request has been sent
RunPrefixError ==
  IF ~active THEN "No active session"
  ELSE IF getRecentTranscriptText = << >>
       THEN "Not enough transcript to generate"
  ELSE IF ~ClientAvailable THEN "Missing OpenAI API key"
  ELSE Null

NewRun(kind) ==
  [pc |-> "summarise", kind |-> kind, epoch |-> epoch, summary |-> "",
   prompt |-> "", phaseSent |-> config.phase, queued |-> 0]

\* faulty variant: the finally block starts another run without testing the flag
RerunAlways == TRUE

\* the finally block of /api/generate starts the queued run
RerunWanted == pendingTrigger

\* the end of one runGeneration call r (r = 0: a triggered call that threw
\* before its first await), with error err (Null: it returned item).
\* A triggered call answers the request and runs the handler's catch and
\* finally; a queued call only has the .catch of the finally block.
\* base is session.lastError as the call's caller left it.
Finish(r, op, kind, err, item, base, calls) ==
  LET rerun == kind = "trigger" /\ RerunWanted
      rerunErr == IF rerun THEN RunPrefixError ELSE Null
      freed == IF r = 0 THEN runs ELSE [runs EXCEPT ![r] = NoRun]
      slot == CHOOSE q \in RunIds : q # r /\ runs[q].pc = "new" /\
                 \A p \in RunIds : (p # r /\ runs[p].pc = "new") => q <= p
  IN
  /\ generationInProgress' =
       IF kind = "trigger" THEN FALSE ELSE generationInProgress
  /\ pendingTrigger' = IF kind = "trigger" THEN FALSE ELSE pendingTrigger
  /\ queuedSince' = IF kind = "trigger" THEN 0 ELSE queuedSince
  /\ lastError' =
       IF rerun /\ rerunErr # Null THEN rerunErr
       ELSE IF err # Null THEN err ELSE base
  /\ runs' =
       IF rerun /\ rerunErr = Null
       THEN [freed EXCEPT ![slot] = NewRun("rerun")]
       ELSE freed
  /\ step' =
       [Obs(op) EXCEPT
          !.stale = (r # 0 /\ runs[r].epoch # epoch),
          !.result = IF kind # "trigger" THEN "none"
                     ELSE IF err # Null THEN "error" ELSE "image",
          !.error = IF kind = "trigger" THEN err ELSE Null,
          !.image = IF kind = "trigger" /\ err = Null THEN Some(item)
                    ELSE None,
          !.run = r,
          !.runKind = kind,
          !.finished = 1,
          !.failed = IF err # Null THEN 1 ELSE 0,
          !.reruns = IF rerun THEN 1 ELSE 0,
          !.started = (IF r = 0 THEN 1 ELSE 0) + (IF rerun THEN 1 ELSE 0),
          !.dropped = IF err = Null /\ Len(images) >= MaxImages
                      THEN Some(images[Len(images)]) ELSE None,
          !.queuedBefore = queuedSince,
          !.queuedDuring = IF r = 0 THEN 0 ELSE runs[r].queued,
          !.remoteCalls = calls + (IF rerun /\ rerunErr = Null THEN 1 ELSE 0)]

\* POST /api/generate on an inactive session
GenerateInactive ==
  /\ ~active
  /\ step' = [Obs("generate") EXCEPT !.result = "error",
                !.error = "No active session"]
  /\ UNCHANGED <<now, envKey, realtimeEnabled, sessionVars, runs, uploads,
                 upstreams, conns, rt, nextImageId, epoch, queuedSince>>

\* faulty variant: the busy branch also runs the idle branch's lastError reset
GenerateQueuedClearsError ==
  /\ active /\ generationInProgress
  /\ pendingTrigger' = TRUE
  /\ lastError' = Null
  /\ queuedSince' = queuedSince + 1
  /\ runs' = [r \in RunIds |->
                IF Executing(r) /\ runs[r].kind = "trigger"
                THEN [runs[r] EXCEPT !.queued = @ + 1] ELSE runs[r]]
  /\ step' = [Obs("generate") EXCEPT !.result = "queued"]
  /\ UNCHANGED <<now, envKey, realtimeEnabled, active, apiKey, config,
                 transcripts, images, lastSummary, lastPrompt,
                 generationInProgress, realtime, uploads, upstreams, conns, rt,
                 nextImageId, epoch>>

\* POST /api/generate while generationInProgress: queue and answer
\* faulty variant: a trigger is queued whether or not a run is in progress
GenerateQueuedWhenIdle ==
  /\ active
  /\ pendingTrigger' = TRUE
  /\ queuedSince' = queuedSince + 1
  /\ runs' = [r \in RunIds |->
                IF Executing(r) /\ runs[r].kind = "trigger"
                THEN [runs[r] EXCEPT !.queued = @ + 1] ELSE runs[r]]
  /\ step' = [Obs("generate") EXCEPT !.result = "queued"]
  /\ UNCHANGED <<now, envKey, realtimeEnabled, active, apiKey, config,
                 transcripts, images, lastSummary, lastPrompt,
                 generationInProgress, lastError, realtime, uploads,
                 upstreams, conns, rt, nextImageId, epoch>>

GenerateQueued ==
  /\ active /\ generationInProgress
  /\ pendingTrigger' = TRUE
  /\ queuedSince' = queuedSince + 1
  /\ runs' = [r \in RunIds |->
                IF Executing(r) /\ runs[r].kind = "trigger"
                THEN [runs[r] EXCEPT !.queued = @ + 1] ELSE runs[r]]
  /\ step' = [Obs("generate") EXCEPT !.result = "queued"]
  /\ UNCHANGED <<now, envKey, realtimeEnabled, active, apiKey, config,
                 transcripts, images, lastSummary, lastPrompt,
                 generationInProgress, lastError, realtime, uploads,
                 upstreams, conns, rt, nextImageId, epoch>>

\* POST /api/generate while idle: set the flag, clear lastError, call
\* runGeneration; the handler suspends at the summarise request
GenerateStarted ==
  /\ active /\ ~generationInProgress
  /\ RunPrefixError = Null
  /\ generationInProgress' = TRUE
  /\ lastError' = Null
  /\ runs' = [runs EXCEPT ![FreeRun] = NewRun("trigger")]
  /\ step' = [Obs("generate") EXCEPT !.started = 1, !.remoteCalls = 1,
                !.run = FreeRun, !.runKind = "trigger"]
  /\ UNCHANGED <<now, envKey, realtimeEnabled, active, apiKey, config,
                 transcripts, images, lastSummary, lastPrompt,
                 pendingTrigger, realtime, uploads, upstreams, conns, rt,
                 nextImageId, epoch, queuedSince>>

\* POST /api/generate while idle, runGeneration throwing before any await:
\* catch records the error, finally clears the flag (all in one turn)
GenerateThrew ==
  /\ active /\ ~generationInProgress
  /\ RunPrefixError # Null
  /\ Finish(0, "generate", "trigger", RunPrefixError, None, Null, 0)
  /\ UNCHANGED <<now, envKey, realtimeEnabled, active, apiKey, config,
                 transcripts, images, lastSummary, lastPrompt, realtime,
                 uploads, upstreams, conns, rt, nextImageId, epoch>>

Generate ==
  GenerateInactive \/ GenerateQueued \/ GenerateStarted \/ GenerateThrew

\* faulty variant: the list grows without the cap
unshiftImageUncapped(item) == <<item>> \o images

\* faulty variant: the cap spares a pinned oldest image
unshiftImageSparesPinned(item) ==
  LET all == <<item>> \o images
  IN IF Len(all) <= MaxImages THEN all
     ELSE IF all[Len(all)].pinned
     THEN SubSeq(all, 1, MaxImages - 1) \o <<all[Len(all)]>>
     ELSE SubSeq(all, 1, MaxImages)

\* session.images.unshift(item), then the cap
unshiftImage(item) ==
  LET all == <<item>> \o images
  IN IF Len(all) > MaxImages THEN SubSeq(all, 1, MaxImages) ELSE all

\* summariseTranscript resolved with text: lastSummary is written and
\* createImagePrompt sends its request (getClient may throw first)
SummariseResolved(r, text) ==
  /\ runs[r].pc = "summarise"
  /\ lastSummary' = Some([text |-> text, timestamp |-> now,
                          phase |-> config.phase])
  /\ IF ClientAvailable
     THEN /\ runs' = [runs EXCEPT ![r].pc = "prompt", ![r].summary = text]
          /\ step' = [Obs("summarised") EXCEPT
                        !.stale = (runs[r].epoch # epoch), !.run = r,
                        !.runKind = runs[r].kind, !.remoteCalls = 1]
          /\ UNCHANGED <<generationInProgress, pendingTrigger, lastError,
                         queuedSince>>
     ELSE Finish(r, "summarised", runs[r].kind, "Missing OpenAI API key",
                 None, lastError, 0)
  /\ UNCHANGED <<now, envKey, realtimeEnabled, active, apiKey, config,
                 transcripts, images, lastPrompt, realtime, uploads,
                 upstreams, conns, rt, nextImageId, epoch>>

\* createImagePrompt resolved with text: lastPrompt is written and
\* generateImage sends its request (getClient may throw first)
PromptResolved(r, text) ==
  /\ runs[r].pc = "prompt"
  /\ lastPrompt' = text
  /\ IF ClientAvailable
     THEN /\ runs' = [runs EXCEPT ![r].pc = "image", ![r].prompt = text]
          /\ step' = [Obs("prompted") EXCEPT
                        !.stale = (runs[r].epoch # epoch), !.run = r,
                        !.runKind = runs[r].kind, !.remoteCalls = 1]
          /\ UNCHANGED <<generationInProgress, pendingTrigger, lastError,
                         queuedSince>>
     ELSE Finish(r, "prompted", runs[r].kind, "Missing OpenAI API key",
                 None, lastError, 0)
  /\ UNCHANGED <<now, envKey, realtimeEnabled, active, apiKey, config,
                 transcripts, images, lastSummary, realtime, uploads,
                 upstreams, conns, rt, nextImageId, epoch>>

newImage(r, payload) ==
  [id |-> nextImageId, prompt |-> runs[r].prompt,
   summary |-> runs[r].summary, phase |-> config.phase, createdAt |-> now,
   size |-> config.imageSize, pinned |-> FALSE, deleted |-> FALSE,
   url |-> payload]

\* images.generate resolved: without a payload generateImage throws,
\* otherwise the item is built and put at the head of the list
ImageResolved(r, payload) ==
  /\ runs[r].pc = "image"
  /\ IF payload = ""
     THEN /\ Finish(r, "rendered", runs[r].kind,
                    "No image data returned from OpenAI", None, lastError, 0)
          /\ UNCHANGED <<images, nextImageId>>
     ELSE /\ images' = unshiftImage(newImage(r, payload))
          /\ nextImageId' = nextImageId + 1
          /\ Finish(r, "rendered", runs[r].kind, Null, newImage(r, payload),
                    lastError, 0)
  /\ UNCHANGED <<now, envKey, realtimeEnabled, active, apiKey, config,
                 transcripts, lastSummary, lastPrompt, realtime, uploads,
                 upstreams, conns, rt, epoch>>

\* faulty variant: the rejected request is sent again
StageFailedRetried(r) ==
  /\ Executing(r)
  /\ step' = [Obs("stage failed") EXCEPT !.run = r, !.failed = 1,
                !.runKind = runs[r].kind, !.remoteCalls = 1]
  /\ UNCHANGED <<now, envKey, realtimeEnabled, sessionVars, runs, uploads,
                 upstreams, conns, rt, nextImageId, epoch, queuedSince>>

\* faulty variant: a rejected stage ends the run without the finally block
StageFailedSkipsFinally(r) ==
  /\ Executing(r)
  /\ runs' = [runs EXCEPT ![r] = NoRun]
  /\ lastError' = "OpenAI request failed"
  /\ step' = [Obs("stage failed") EXCEPT !.run = r,
                !.runKind = runs[r].kind, !.finished = 1, !.failed = 1,
                !.stale = (runs[r].epoch # epoch)]
  /\ UNCHANGED <<now, envKey, realtimeEnabled, active, apiKey, config,
                 transcripts, images, lastSummary, lastPrompt, realtime,
                 uploads, upstreams, conns, rt, nextImageId, epoch,
                 generationInProgress, pendingTrigger, queuedSince>>

\* the remote call a run is waiting for rejected
StageFailed(r) ==
  /\ Executing(r)
  /\ Finish(r, "stage failed", runs[r].kind, "OpenAI request failed", None,
            lastError, 0)
  /\ UNCHANGED <<now, envKey, realtimeEnabled, active, apiKey, config,
                 transcripts, images, lastSummary, lastPrompt, realtime,
                 uploads, upstreams, conns, rt, nextImageId, epoch>>

\* ------------------------------------------------ batch transcription
UploadSizes == {0, MinUploadBytes - 1, MinUploadBytes}

\* faulty variant: the buffer size is not looked at
AudioUploadAnySize(size) ==
  /\ IF ~active
     THEN /\ step' = [Obs("audio") EXCEPT !.size = size,
                        !.result = "error",
                        !.error = "No active session"]
          /\ UNCHANGED <<uploads, lastError>>
     ELSE IF ~ClientAvailable
     THEN /\ step' = [Obs("audio") EXCEPT !.size = size,
                        !.result = "error",
                        !.error = "Transcription failed"]
          /\ lastError' = "Missing OpenAI API key"
          /\ UNCHANGED uploads
     ELSE /\ uploads' = [uploads EXCEPT
                           ![FreeUpload] = [pc |-> "transcribe",
                                            epoch |-> epoch, calls |-> 1,
                                            transcodes |-> 0]]
          /\ step' = [Obs("audio") EXCEPT !.size = size,
                        !.remoteCalls = 1]
          /\ UNCHANGED lastError
  /\ UNCHANGED <<now, envKey, realtimeEnabled, active, apiKey, config,
                 transcripts, images, lastSummary, lastPrompt,
                 generationInProgress, pendingTrigger, realtime, runs,
                 upstreams, conns, rt, nextImageId, epoch, queuedSince>>

\* POST /api/audio up to the first await of the transcription request:
\* every mime type resolves to an extension of DIRECT_UPLOAD_EXTS, so the
\* buffer is first sent as it is
AudioUpload(size) ==
  /\ IF ~active
     THEN /\ step' = [Obs("audio") EXCEPT !.size = size,
                        !.result = "error",
                        !.error = "No active session"]
          /\ UNCHANGED <<uploads, lastError>>
     ELSE IF size < MinUploadBytes
     THEN /\ step' = [Obs("audio") EXCEPT !.size = size,
                        !.result = "error",
                        !.error = "Audio chunk too small"]
          /\ UNCHANGED <<uploads, lastError>>
     ELSE IF ~ClientAvailable
     THEN /\ step' = [Obs("audio") EXCEPT !.size = size,
                        !.result = "error",
                        !.error = "Transcription failed"]
          /\ lastError' = "Missing OpenAI API key"
          /\ UNCHANGED uploads
     ELSE /\ uploads' = [uploads EXCEPT
                           ![FreeUpload] = [pc |-> "transcribe",
                                            epoch |-> epoch, calls |-> 1,
                                            transcodes |-> 0]]
          /\ step' = [Obs("audio") EXCEPT !.size = size,
                        !.remoteCalls = 1]
          /\ UNCHANGED lastError
  /\ UNCHANGED <<now, envKey, realtimeEnabled, active, apiKey, config,
                 transcripts, images, lastSummary, lastPrompt,
                 generationInProgress, pendingTrigger, realtime, runs,
                 upstreams, conns, rt, nextImageId, epoch, queuedSince>>

\* faulty variant: the failure of the direct attempt is final
DirectFailedFinal(u) ==
  /\ uploads[u].pc = "transcribe"
  /\ uploads' = [uploads EXCEPT ![u] = NoUpload]
  /\ lastError' = "OpenAI request failed"
  /\ step' = [Obs("transcribe failed") EXCEPT
                !.stale = (uploads[u].epoch # epoch), !.result = "error",
                !.error = "Transcription failed", !.upload = u]
  /\ UNCHANGED <<now, envKey, realtimeEnabled, active, apiKey, config,
                 transcripts, images, lastSummary, lastPrompt,
                 generationInProgress, pendingTrigger, realtime, runs,
                 upstreams, conns, rt, nextImageId, epoch, queuedSince>>

\* the direct transcription request rejected: convertToWav spawns ffmpeg
DirectFailed(u) ==
  /\ uploads[u].pc = "transcribe"
  /\ uploads' = [uploads EXCEPT ![u].pc = "convert", ![u].transcodes = @ + 1]
  /\ step' = [Obs("direct failed") EXCEPT
                !.stale = (uploads[u].epoch # epoch), !.upload = u]
  /\ UNCHANGED <<now, envKey, realtimeEnabled, sessionVars, runs, upstreams,
                 conns, rt, nextImageId, epoch, queuedSince>>

\* ffmpeg closed or failed: the second transcription request is sent, with
\* the WAV buffer or, when the conversion failed, with the original one
Converted(u, ok) ==
  /\ uploads[u].pc = "convert"
  /\ uploads' = [uploads EXCEPT ![u].pc = "retry", ![u].calls = @ + 1]
  /\ step' = [Obs("converted") EXCEPT
                !.stale = (uploads[u].epoch # epoch), !.upload = u,
                !.result = IF ok THEN "wav" ELSE "original",
                !.remoteCalls = 1]
  /\ UNCHANGED <<now, envKey, realtimeEnabled, sessionVars, runs, upstreams,
                 conns, rt, nextImageId, epoch, queuedSince>>

\* a transcription request, the direct one or the retry, resolved and
\* maybePolishTranscript returned text ('' when nothing survived): a
\* non-empty text is pushed and the store trimmed
AudioResolved(u, text) ==
  /\ uploads[u].pc \in {"transcribe", "retry"}
  /\ uploads' = [uploads EXCEPT ![u] = NoUpload]
  /\ transcripts' = IF text # << >> THEN appendTranscript(text, 0)
                    ELSE transcripts
  /\ step' = [Obs("transcribed") EXCEPT
                !.stale = (uploads[u].epoch # epoch), !.result = "text",
                !.upload = u,
                !.appended = IF text # << >> THEN 1 ELSE 0,
                !.trimmed = IF text # << >>
                            THEN Len(transcripts) + 1
                                 - Len(appendTranscript(text, 0))
                            ELSE 0]
  /\ UNCHANGED <<now, envKey, realtimeEnabled, active, apiKey, config,
                 images, lastSummary, lastPrompt, generationInProgress,
                 pendingTrigger, lastError, realtime, runs, upstreams, conns, rt,
                 nextImageId, epoch, queuedSince>>

\* the retry rejected as well: transcribeAudio throws the last error and
\* the handler's catch records its message
AudioFailed(u) ==
  /\ uploads[u].pc = "retry"
  /\ uploads' = [uploads EXCEPT ![u] = NoUpload]
  /\ lastError' = "OpenAI request failed"
  /\ step' = [Obs("transcribe failed") EXCEPT
                !.stale = (uploads[u].epoch # epoch), !.result = "error",
                !.error = "Transcription failed", !.upload = u]
  /\ UNCHANGED <<now, envKey, realtimeEnabled, active, apiKey, config,
                 transcripts, images, lastSummary, lastPrompt,
                 generationInProgress, pendingTrigger, realtime, runs,
                 upstreams, conns, rt, nextImageId, epoch, queuedSince>>

\* ------------------------------------------------------ config update
ConfigRequests ==
  [phase : ConfigPhases, summarizationWindowMinutes : ConfigWindows,
   autoIntervalMinutes : ConfigIntervals, imageSize : ConfigSizes,
   stylePreset : {""}, languageMode : ConfigLanguages]
CoreConfigRequests ==
  [phase : {"Mission"}, summarizationWindowMinutes : {0},
   autoIntervalMinutes : {0}, imageSize : {""}, stylePreset : {""}]

\* buildRealtimeSessionConfig: the recognition settings of a session.update
\* (language hint, and the workshop type and phase of the prompt)
buildRealtimeSessionConfig(cfg) ==
  [language |-> cfg.languageMode, workshopType |-> cfg.workshopType,
   phase |-> cfg.phase]

\* faulty variant: the update carries the settings from before the merge
refreshWithOldConfig(cfg) ==
  IF realtime.upstream = 0 THEN None
  ELSE Some([to |-> realtime.upstream,
             session |-> buildRealtimeSessionConfig(config)])

\* refreshRealtimeSessionConfig under the config cfg: the session.update
\* sent on the stored upstream handle, if there is one
refreshRealtimeSessionConfig(cfg) ==
  IF realtime.upstream = 0 THEN None
  ELSE Some([to |-> realtime.upstream,
             session |-> buildRealtimeSessionConfig(cfg)])

\* the config object handed to setSessionConfig by /api/config
updatedConfig(req) ==
  setSessionConfig(
    [config EXCEPT
       !.phase = OrStr(req.phase, config.phase),
       !.autoIntervalMinutes =
          OrNum(req.autoIntervalMinutes, config.autoIntervalMinutes),
       !.imageSize = OrStr(req.imageSize, config.imageSize),
       !.stylePreset = OrStr(req.stylePreset, config.stylePreset),
       !.summarizationWindowMinutes =
          OrNum(req.summarizationWindowMinutes,
                config.summarizationWindowMinutes),
       !.transcriptWindowMinutes = config.transcriptWindowMinutes])

\* faulty variant: the update is applied without the session check
UpdateConfigAnytime(req) ==
  /\ config' = updatedConfig(req)
  /\ step' = [Obs("config") EXCEPT !.result = "ok", !.patch = Some(req),
                !.config = Some(updatedConfig(req)),
                !.update = refreshRealtimeSessionConfig(updatedConfig(req))]
  /\ UNCHANGED <<now, envKey, realtimeEnabled, active, apiKey, transcripts,
                 images, lastSummary, lastPrompt, generationInProgress,
                 pendingTrigger, lastError, realtime, runs, uploads,
                 upstreams, conns, rt, nextImageId, epoch, queuedSince>>

\* POST /api/config
UpdateConfig(req) ==
  /\ IF ~active
     THEN /\ step' = [Obs("config") EXCEPT !.result = "error",
                        !.error = "No active session", !.patch = Some(req)]
          /\ UNCHANGED config
     ELSE /\ config' = updatedConfig(req)
          /\ step' = [Obs("config") EXCEPT !.result = "ok",
                        !.patch = Some(req),
                        !.config = Some(updatedConfig(req)),
                        !.update =
                          refreshRealtimeSessionConfig(updatedConfig(req))]
  /\ UNCHANGED <<now, envKey, realtimeEnabled, active, apiKey, transcripts,
                 images, lastSummary, lastPrompt, generationInProgress,
                 pendingTrigger, lastError, realtime, runs, uploads,
                 upstreams, conns, rt, nextImageId, epoch, queuedSince>>

\* ---------------------------------------------------- image mutation
ImageIndex(id) ==
  IF \E i \in 1..Len(images) : images[i].id = id
  THEN CHOOSE i \in 1..Len(images) : images[i].id = id
  ELSE 0

\* PATCH /api/images/:id with a boolean pinned
PinImage(id, pinned) ==
  /\ IF ImageIndex(id) = 0
     THEN /\ step' = [Obs("pin") EXCEPT !.id = id, !.result = "error",
                        !.error = "Image not found"]
          /\ UNCHANGED images
     ELSE /\ images' = [images EXCEPT ![ImageIndex(id)].pinned = pinned]
          /\ step' = [Obs("pin") EXCEPT !.id = id, !.result = "ok"]
  /\ UNCHANGED <<now, envKey, realtimeEnabled, active, apiKey, config,
                 transcripts, lastSummary, lastPrompt, generationInProgress,
                 pendingTrigger, lastError, realtime, runs, uploads,
                 upstreams, conns, rt, nextImageId, epoch, queuedSince>>

\* faulty variant: the image is taken out of the list
DeleteImageRemoves(id) ==
  /\ IF ImageIndex(id) = 0
     THEN /\ step' = [Obs("delete") EXCEPT !.id = id, !.result = "error",
                        !.error = "Image not found"]
          /\ UNCHANGED images
     ELSE /\ images' = SelectSeq(images, LAMBDA img : img.id # id)
          /\ step' = [Obs("delete") EXCEPT !.id = id, !.result = "ok"]
  /\ UNCHANGED <<now, envKey, realtimeEnabled, active, apiKey, config,
                 transcripts, lastSummary, lastPrompt, generationInProgress,
                 pendingTrigger, lastError, realtime, runs, uploads,
                 upstreams, conns, rt, nextImageId, epoch, queuedSince>>

\* faulty variant: an unknown id falls back on the newest image
DeleteImageOrNewest(id) ==
  /\ IF images = << >>
     THEN /\ step' = [Obs("delete") EXCEPT !.id = id, !.result = "error",
                        !.error = "Image not found"]
          /\ UNCHANGED images
     ELSE /\ images' = [images EXCEPT
                          ![IF ImageIndex(id) = 0 THEN 1
                            ELSE ImageIndex(id)].deleted = TRUE]
          /\ step' = [Obs("delete") EXCEPT !.id = id, !.result = "ok"]
  /\ UNCHANGED <<now, envKey, realtimeEnabled, active, apiKey, config,
                 transcripts, lastSummary, lastPrompt, generationInProgress,
                 pendingTrigger, lastError, realtime, runs, uploads,
                 upstreams, conns, rt, nextImageId, epoch, queuedSince>>

\* DELETE /api/images/:id
DeleteImage(id) ==
  /\ IF ImageIndex(id) = 0
     THEN /\ step' = [Obs("delete") EXCEPT !.id = id, !.result = "error",
                        !.error = "Image not found"]
          /\ UNCHANGED images
     ELSE /\ images' = [images EXCEPT ![ImageIndex(id)].deleted = TRUE]
          /\ step' = [Obs("delete") EXCEPT !.id = id, !.result = "ok"]
  /\ UNCHANGED <<now, envKey, realtimeEnabled, active, apiKey, config,
                 transcripts, lastSummary, lastPrompt, generationInProgress,
                 pendingTrigger, lastError, realtime, runs, uploads,
                 upstreams, conns, rt, nextImageId, epoch, queuedSince>>

\* faulty variant: the snapshot lists the stored images unfiltered
StatusWithDeleted ==
  [sessionActive |-> active,
   config |-> config,
   lastSummary |-> lastSummary,
   generationInProgress |-> generationInProgress,
   pendingTrigger |-> pendingTrigger,
   lastError |-> lastError,
   transcripts |-> SubSeq(transcripts,
                          IF Len(transcripts) > 50 THEN Len(transcripts) - 49
                          ELSE 1, Len(transcripts)),
   images |-> images,
   realtimeStatus |-> realtime.status]

\* GET /api/status
Status ==
  [sessionActive |-> active,
   config |-> config,
   lastSummary |-> lastSummary,
   generationInProgress |-> generationInProgress,
   pendingTrigger |-> pendingTrigger,
   lastError |-> lastError,
   transcripts |-> SubSeq(transcripts,
                          IF Len(transcripts) > 50 THEN Len(transcripts) - 49
                          ELSE 1, Len(transcripts)),
   images |-> SelectSeq(images, LAMBDA img : ~img.deleted),
   realtimeStatus |-> realtime.status]

\* -------------------------------------------------- realtime gateway
\* faulty variant: the connection is registered before the checks
WsConnectRegistersFirst(c) ==
  /\ conns[c].state = "new"
  /\ conns' = [conns EXCEPT ![c].state =
                 IF ~active \/ ~realtimeEnabled THEN "rejected" ELSE "open"]
  /\ realtime' = [realtime EXCEPT !.clients = realtime.clients \cup {c},
                                  !.status = "client_connected"]
  /\ step' = [Obs("ws connect") EXCEPT
                !.result = IF ~active \/ ~realtimeEnabled THEN "closed"
                           ELSE "ready",
                !.conn = c,
                !.ready = IF ~active \/ ~realtimeEnabled THEN 0 ELSE 1]
  /\ UNCHANGED <<now, envKey, realtimeEnabled, active, apiKey, config,
                 transcripts, images, lastSummary, lastPrompt,
                 generationInProgress, pendingTrigger, lastError, runs,
                 uploads, upstreams, nextImageId, epoch, queuedSince, rt>>

\* a websocket connection arrives at /ws/audio
WsConnect(c) ==
  /\ conns[c].state = "new"
  /\ IF ~active \/ ~realtimeEnabled
     THEN /\ conns' = [conns EXCEPT ![c].state = "rejected"]
          /\ step' = [Obs("ws connect") EXCEPT !.result = "closed",
                        !.conn = c]
          /\ UNCHANGED realtime
     ELSE /\ conns' = [conns EXCEPT ![c].state = "open"]
          /\ realtime' = [realtime EXCEPT
                            !.clients = realtime.clients \cup {c},
                            !.status = "client_connected"]
          /\ step' = [Obs("ws connect") EXCEPT !.result = "ready",
                        !.conn = c, !.ready = 1]
  /\ UNCHANGED <<now, envKey, realtimeEnabled, active, apiKey, config,
                 transcripts, images, lastSummary, lastPrompt,
                 generationInProgress, pendingTrigger, lastError, runs,
                 uploads, upstreams, nextImageId, epoch, queuedSince, rt>>

\* faulty variant: cleanup forgets the connection's ffmpeg process
WsClosedLeavesTranscoder(c) ==
  /\ conns[c].state \in {"open", "closing"}
  /\ conns' = [conns EXCEPT ![c].state = "closed"]
  /\ realtime' = [realtime EXCEPT !.clients = realtime.clients \ {c}]
  /\ step' = Obs("ws closed")
  /\ UNCHANGED <<now, envKey, realtimeEnabled, active, apiKey, config,
                 transcripts, images, lastSummary, lastPrompt,
                 generationInProgress, pendingTrigger, lastError, runs,
                 uploads, upstreams, nextImageId, epoch, queuedSince, rt>>

\* the 'close' (or 'error') event of a connection: cleanup removes it from
\* the listener set of the session that exists now, ends the input of its
\* ffmpeg process and kills it
WsClosed(c) ==
  /\ conns[c].state \in {"open", "closing"}
  /\ conns' = [conns EXCEPT ![c] = [NoConn EXCEPT !.state = "closed"]]
  /\ realtime' = [realtime EXCEPT !.clients = realtime.clients \ {c}]
  /\ step' = [Obs("ws closed") EXCEPT
                !.killed = IF conns[c].transcoder THEN 1 ELSE 0]
  /\ UNCHANGED <<now, envKey, realtimeEnabled, active, apiKey, config,
                 transcripts, images, lastSummary, lastPrompt,
                 generationInProgress, pendingTrigger, lastError, runs,
                 uploads, upstreams, nextImageId, epoch, queuedSince, rt>>

\* ensureRealtimeUpstream up to its first await, called by a message
\* handler: nothing when realtime is off, a handle is stored or getClient
\* throws; otherwise a new upstream connection is begun
upstreamsAfterEnsure ==
  IF realtimeEnabled /\ realtime.upstream = 0 /\ ClientAvailable
  THEN [upstreams EXCEPT ![FreeUpstream] = "connecting"]
  ELSE upstreams
realtimeAfterEnsure(r) ==
  IF realtimeEnabled /\ realtime.upstream = 0 /\ ClientAvailable
  THEN [r EXCEPT !.status = "connecting"]
  ELSE r

\* an audio chunk handed to ensureRealtimeUpstream: with no handle stored
\* it waits for the upstream this call begins
framesAfterEnsure(c, kind) ==
  IF realtimeEnabled /\ realtime.upstream = 0 /\ ClientAvailable
  THEN [rt EXCEPT !.frames[FreeUpstream] =
          [conn |-> c, seq |-> requests + 1, kind |-> kind]]
  ELSE rt

\* what the chunk handler does at once: append on the stored handle, or
\* wait
forwardStep(op, c, kind) ==
  [Obs(op) EXCEPT !.conn = c, !.kind = kind,
     !.result = IF realtime.upstream # 0 THEN "sent"
                ELSE "awaiting upstream",
     !.forwarded = IF realtime.upstream # 0 THEN 1 ELSE 0,
     !.frame = IF realtime.upstream # 0 THEN requests + 1 ELSE 0]

\* a frame of a connection that was closed at connect time: the handler of
\* 'message' was never registered
WsIgnored(c, op) ==
  /\ step' = [Obs(op) EXCEPT !.conn = c, !.result = "ignored"]
  /\ UNCHANGED <<realtime, upstreams, conns>>

\* the message handler's guards: session.active, REALTIME_ENABLED
WsRefused(c, op) ==
  /\ step' = [Obs(op) EXCEPT !.conn = c, !.result = "error",
                !.error = IF ~active THEN "No active session"
                          ELSE "Realtime disabled"]
  /\ UNCHANGED <<realtime, upstreams, conns>>

\* the control message {type: 'start', format, mime}: the container name
\* goes to session.realtime.lastMime, the passthrough flag to the
\* connection, then the ack and ensureRealtimeUpstream
WsStart(c, format, mime) ==
  /\ conns[c].state \in {"open", "closing", "rejected"}
  /\ IF conns[c].state = "rejected" THEN WsIgnored(c, "ws start")
     ELSE IF ~active \/ ~realtimeEnabled THEN WsRefused(c, "ws start")
     ELSE /\ conns' = [conns EXCEPT
                         ![c].started = TRUE,
                         ![c].passthroughPcm = (format = "pcm16"),
                         ![c].ownMime = OrStr(mime, conns[c].ownMime)]
          /\ upstreams' = upstreamsAfterEnsure
          /\ realtime' = realtimeAfterEnsure(
                            [realtime EXCEPT
                               !.lastMime = OrStr(mime, realtime.lastMime)])
          /\ step' = [Obs("ws start") EXCEPT !.conn = c, !.result = "ack"]
  /\ UNCHANGED <<now, envKey, realtimeEnabled, active, apiKey, config,
                 transcripts, images, lastSummary, lastPrompt,
                 generationInProgress, pendingTrigger, lastError, runs,
                 uploads, nextImageId, epoch, queuedSince, rt>>

\* the control message {type: 'commit'}: ensureRealtimeUpstream, then
\* input_audio_buffer.commit on the handle it returned
WsCommit(c) ==
  /\ conns[c].state \in {"open", "closing", "rejected"}
  /\ IF conns[c].state = "rejected" THEN WsIgnored(c, "ws commit")
     ELSE IF ~active \/ ~realtimeEnabled THEN WsRefused(c, "ws commit")
     ELSE /\ upstreams' = upstreamsAfterEnsure
          /\ realtime' = realtimeAfterEnsure(realtime)
          /\ step' = [Obs("ws commit") EXCEPT !.conn = c,
                        !.result = IF realtime.upstream # 0 THEN "sent"
                                   ELSE "awaiting upstream",
                        !.forwarded = IF realtime.upstream # 0 THEN 1
                                      ELSE 0]
          /\ UNCHANGED conns
  /\ UNCHANGED <<now, envKey, realtimeEnabled, active, apiKey, config,
                 transcripts, images, lastSummary, lastPrompt,
                 generationInProgress, pendingTrigger, lastError, runs,
                 uploads, nextImageId, epoch, queuedSince, rt>>

\* faulty variant: a text frame that does not parse ends the connection
WsMalformedCloses(c) ==
  /\ conns[c].state \in {"open", "closing", "rejected"}
  /\ IF conns[c].state = "rejected"
     THEN WsIgnored(c, "ws malformed")
     ELSE /\ conns' = [conns EXCEPT ![c].state = "closing",
                                     ![c].erred = TRUE]
          /\ step' = [Obs("ws malformed") EXCEPT !.conn = c,
                        !.result = "error",
                        !.error = "Invalid control message"]
          /\ UNCHANGED <<realtime, upstreams>>
  /\ UNCHANGED <<now, envKey, realtimeEnabled, active, apiKey, config,
                 transcripts, images, lastSummary, lastPrompt,
                 generationInProgress, pendingTrigger, lastError, runs,
                 uploads, nextImageId, epoch, queuedSince, rt>>

\* a text frame that is not a JSON object: JSON.parse (or msg.type) throws
\* and the catch sends an error event to this connection
WsMalformed(c) ==
  /\ conns[c].state \in {"open", "closing", "rejected"}
  /\ IF conns[c].state = "rejected"
     THEN WsIgnored(c, "ws malformed")
     ELSE /\ conns' = [conns EXCEPT ![c].erred = TRUE]
          /\ step' = [Obs("ws malformed") EXCEPT !.conn = c,
                        !.result = "error",
                        !.error = IF ~active THEN "No active session"
                                  ELSE IF ~realtimeEnabled
                                  THEN "Realtime disabled"
                                  ELSE "Invalid control message"]
          /\ UNCHANGED <<realtime, upstreams>>
  /\ UNCHANGED <<now, envKey, realtimeEnabled, active, apiKey, config,
                 transcripts, images, lastSummary, lastPrompt,
                 generationInProgress, pendingTrigger, lastError, runs,
                 uploads, nextImageId, epoch, queuedSince, rt>>

\* the -f flag startTranscoder gives ffmpeg for a mime type ('' when it
\* leaves the container to be probed)
inputFormatFlags(mime) ==
  CASE mime = "audio/webm" -> "webm"
    [] mime = "audio/ogg" -> "ogg"
    [] mime = "audio/mp3" -> "mp3"
    [] OTHER -> ""

\* a binary frame: PCM goes to the upstream that ensureRealtimeUpstream
\* returns (at once when a handle is stored), anything else is written to
\* the connection's ffmpeg process, spawned on the first such frame for
\* the container in session.realtime.lastMime
WsBinary(c) ==
  /\ conns[c].state \in {"open", "closing", "rejected"}
  /\ IF conns[c].state = "rejected"
     THEN WsIgnored(c, "ws frame") /\ UNCHANGED rt
     ELSE IF ~active \/ ~realtimeEnabled
     THEN WsRefused(c, "ws frame") /\ UNCHANGED rt
     ELSE IF conns[c].passthroughPcm
     THEN /\ upstreams' = upstreamsAfterEnsure
          /\ realtime' = realtimeAfterEnsure(realtime)
          /\ rt' = framesAfterEnsure(c, "pcm")
          /\ step' = forwardStep("ws frame", c, "pcm")
          /\ UNCHANGED conns
     ELSE /\ UNCHANGED rt
          /\ conns' = [conns EXCEPT
                         ![c].transcoder = TRUE,
                         ![c].decoder =
                            IF conns[c].transcoder THEN conns[c].decoder
                            ELSE inputFormatFlags(realtime.lastMime)]
          /\ step' = [Obs("ws frame") EXCEPT !.conn = c,
                        !.result = "transcoding",
                        !.spawned = IF conns[c].transcoder THEN 0 ELSE 1]
          /\ UNCHANGED <<realtime, upstreams>>
  /\ UNCHANGED <<now, envKey, realtimeEnabled, active, apiKey, config,
                 transcripts, images, lastSummary, lastPrompt,
                 generationInProgress, pendingTrigger, lastError, runs,
                 uploads, nextImageId, epoch, queuedSince>>

\* a chunk on the stdout of a connection's ffmpeg process: the handler
\* awaits ensureRealtimeUpstream and appends the chunk to the upstream it
\* returns; it checks neither session.active nor the connection
TranscoderOutput(c) ==
  /\ conns[c].transcoder
  /\ upstreams' = upstreamsAfterEnsure
  /\ realtime' = realtimeAfterEnsure(realtime)
  /\ rt' = framesAfterEnsure(c, "decoded")
  /\ step' = IF realtimeEnabled /\ (realtime.upstream # 0 \/ ClientAvailable)
             THEN forwardStep("decoder output", c, "decoded")
             ELSE [Obs("decoder output") EXCEPT !.conn = c,
                     !.result = "dropped"]
  /\ UNCHANGED <<now, envKey, realtimeEnabled, active, apiKey, config,
                 transcripts, images, lastSummary, lastPrompt,
                 generationInProgress, pendingTrigger, lastError, runs,
                 uploads, conns, nextImageId, epoch, queuedSince>>

\* ensureRealtimeUpstream after its awaits: the socket is open, the handle
\* is stored in the session that exists now and the first session.update
\* is sent on it; the chunk handler that made the call then appends its
\* chunk to this upstream
UpstreamOpened(u) ==
  /\ upstreams[u] = "connecting"
  /\ upstreams' = [upstreams EXCEPT ![u] = "open"]
  /\ realtime' = [realtime EXCEPT !.upstream = u, !.status = "connected"]
  /\ rt' = [rt EXCEPT !.frames[u] = NoFrame]
  /\ step' = [Obs("upstream opened") EXCEPT
                !.update = Some([to |-> u,
                                 session |->
                                   buildRealtimeSessionConfig(config)]),
                !.forwarded = IF rt.frames[u] # NoFrame THEN 1 ELSE 0,
                !.conn = rt.frames[u].conn,
                !.frame = rt.frames[u].seq,
                !.kind = rt.frames[u].kind]
  /\ UNCHANGED <<now, envKey, realtimeEnabled, active, apiKey, config,
                 transcripts, images, lastSummary, lastPrompt,
                 generationInProgress, pendingTrigger, lastError, runs,
                 uploads, conns, nextImageId, epoch, queuedSince>>

\* OpenAIRealtimeWS.create rejected: the .catch of /api/session/start
UpstreamFailed(u) ==
  /\ upstreams[u] = "connecting"
  /\ upstreams' = [upstreams EXCEPT ![u] = "failed"]
  /\ realtime' = [realtime EXCEPT !.status = "error"]
  /\ rt' = [rt EXCEPT !.frames[u] = NoFrame]
  /\ step' = Obs("upstream failed")
  /\ UNCHANGED <<now, envKey, realtimeEnabled, active, apiKey, config,
                 transcripts, images, lastSummary, lastPrompt,
                 generationInProgress, pendingTrigger, lastError, runs,
                 uploads, conns, nextImageId, epoch, queuedSince>>

\* ---------------------------------------------- realtime transcripts
\* what the upstream may give as the message of a failure ('' when none)
FailureMessages == {"", "audio too short"}

\* faulty variant: the loop over the listeners stops after the first one
broadcastToFirst ==
  LET open == {c \in realtime.clients : conns[c].state = "open"}
  IN IF open = {} THEN {}
     ELSE {CHOOSE c \in open : \A d \in open : c <= d}

\* broadcastRealtime: the listeners the payload is sent to
broadcastRealtime ==
  {c \in realtime.clients : conns[c].state = "open"}

\* the upstream event conversation.item.input_audio_transcription.failed:
\* transcript_error to every open listener
UpstreamTranscriptionFailed(u, message) ==
  /\ upstreams[u] = "open"
  /\ conns' = [c \in ConnIds |->
                 IF c \in broadcastRealtime
                 THEN [conns[c] EXCEPT !.erred = TRUE] ELSE conns[c]]
  /\ step' = [Obs("transcription failed") EXCEPT
                !.event = Some([type |-> "transcript_error",
                                message |-> OrStr(message,
                                                  "Transcription failed")]),
                !.sent = broadcastRealtime]
  /\ UNCHANGED <<now, envKey, realtimeEnabled, sessionVars, runs, uploads,
                 upstreams, rt, nextImageId, epoch, queuedSince>>

\* what the upstream may put in a delta event ('' is not fanned out)
Deltas == {<< >>, <<"o">>}

\* the upstream event conversation.item.input_audio_transcription.delta
UpstreamDelta(u, itemId, delta) ==
  /\ upstreams[u] = "open"
  /\ step' = [Obs("delta") EXCEPT
                !.emitted = Some([itemId |-> itemId, text |-> delta]),
                !.event = IF delta # << >>
                          THEN Some([type |-> "transcript_delta",
                                     itemId |-> itemId, text |-> delta])
                          ELSE None,
                !.sent = IF delta # << >> THEN broadcastRealtime ELSE {}]
  /\ UNCHANGED <<now, envKey, realtimeEnabled, sessionVars, runs, uploads,
                 upstreams, conns, rt, nextImageId, epoch, queuedSince>>

\* handleRealtimeTranscript after maybePolishTranscript returned text
storeRealtimeTranscript(text, itemId, op, stale, raw) ==
  /\ transcripts' = IF text # << >> THEN appendTranscript(text, itemId)
                    ELSE transcripts
  /\ step' = [Obs(op) EXCEPT
                !.stale = stale,
                !.event = IF text # << >>
                          THEN Some([type |-> "transcript_final",
                                     itemId |-> itemId, text |-> text])
                          ELSE None,
                !.sent = IF text # << >> THEN broadcastRealtime ELSE {},
                !.timestamp = IF text # << >> THEN now ELSE 0,
                !.emitted = IF op = "utterance"
                            THEN Some([itemId |-> itemId, text |-> raw])
                            ELSE None,
                !.appended = IF text # << >> THEN 1 ELSE 0,
                !.trimmed = IF text # << >>
                            THEN Len(transcripts) + 1
                                 - Len(appendTranscript(text, itemId))
                            ELSE 0]

\* the upstream event conversation.item.input_audio_transcription.completed:
\* handleRealtimeTranscript up to the await of the cleanup request; a text
\* that does not survive sanitizeTranscript is dropped, and without a client
\* maybePolishTranscript falls back to the sanitized text at once
UpstreamCompleted(u, raw) ==
  /\ upstreams[u] = "open"
  /\ LET sanitized == sanitizeTranscript(raw) IN
     IF sanitized = << >>
     THEN /\ step' = [Obs("utterance") EXCEPT
                        !.emitted = Some([itemId |-> FreePolish,
                                          text |-> raw])]
          /\ UNCHANGED <<transcripts, rt>>
     ELSE IF ClientAvailable
     THEN /\ rt' = [rt EXCEPT !.polishes[FreePolish] =
                      [pc |-> "polish", text |-> sanitized,
                       itemId |-> FreePolish, epoch |-> epoch]]
          /\ step' = [Obs("utterance") EXCEPT !.remoteCalls = 1,
                        !.emitted = Some([itemId |-> FreePolish,
                                          text |-> raw])]
          /\ UNCHANGED transcripts
     ELSE /\ storeRealtimeTranscript(sanitized, FreePolish, "utterance",
                                     FALSE, raw)
          /\ rt' = [rt EXCEPT !.polishes[FreePolish] =
                      [NoPolish EXCEPT !.pc = "done"]]
  /\ UNCHANGED <<now, envKey, realtimeEnabled, active, apiKey, config,
                 images, lastSummary, lastPrompt, generationInProgress,
                 pendingTrigger, lastError, realtime, runs, uploads,
                 upstreams, conns, nextImageId, epoch, queuedSince>>

\* faulty variant: the cleaned text is stored as the cleanup returned it
PolishResolvedUnsanitized(q, polished) ==
  /\ rt.polishes[q].pc = "polish"
  /\ rt' = [rt EXCEPT !.polishes[q] = [NoPolish EXCEPT !.pc = "done"]]
  /\ storeRealtimeTranscript(
       IF Trim(polished) = << >> THEN rt.polishes[q].text
       ELSE Trim(polished),
       rt.polishes[q].itemId, "polished", rt.polishes[q].epoch # epoch,
       << >>)
  /\ UNCHANGED <<now, envKey, realtimeEnabled, active, apiKey, config,
                 images, lastSummary, lastPrompt, generationInProgress,
                 pendingTrigger, lastError, realtime, runs, uploads,
                 upstreams, conns, nextImageId, epoch, queuedSince>>

\* the cleanup request resolved: sanitizeTranscript(polished || sanitized)
PolishResolved(q, polished) ==
  /\ rt.polishes[q].pc = "polish"
  /\ rt' = [rt EXCEPT !.polishes[q] = [NoPolish EXCEPT !.pc = "done"]]
  /\ storeRealtimeTranscript(
       sanitizeTranscript(IF Trim(polished) = << >> THEN rt.polishes[q].text
                          ELSE Trim(polished)),
       rt.polishes[q].itemId, "polished", rt.polishes[q].epoch # epoch,
       << >>)
  /\ UNCHANGED <<now, envKey, realtimeEnabled, active, apiKey, config,
                 images, lastSummary, lastPrompt, generationInProgress,
                 pendingTrigger, lastError, realtime, runs, uploads,
                 upstreams, conns, nextImageId, epoch, queuedSince>>

\* the cleanup request rejected: the catch returns the sanitized text
PolishFailed(q) ==
  /\ rt.polishes[q].pc = "polish"
  /\ rt' = [rt EXCEPT !.polishes[q] = [NoPolish EXCEPT !.pc = "done"]]
  /\ storeRealtimeTranscript(rt.polishes[q].text, rt.polishes[q].itemId,
                             "polish failed", rt.polishes[q].epoch # epoch,
                             << >>)
  /\ UNCHANGED <<now, envKey, realtimeEnabled, active, apiKey, config,
                 images, lastSummary, lastPrompt, generationInProgress,
                 pendingTrigger, lastError, realtime, runs, uploads,
                 upstreams, conns, nextImageId, epoch, queuedSince>>

\* ------------------------------------------------------ specification
UploadsInFlight == Cardinality({u \in UploadIds : uploads[u].pc # "new"})

\* a client request, counted against the bound of the behaviour
ClientCallUpTo(max, A) == requests < max /\ requests' = requests + 1 /\ A
ClientCall(A) == ClientCallUpTo(MaxRequests, A)
\* a promise continuation or an event of a socket the server opened
Callback(A) == A /\ UNCHANGED requests

\* session lifecycle, generation, batch transcription and config updates
Next ==
  \/ \E req \in CoreStartRequests : ClientCall(SessionStart(req))
  \/ ClientCall(SessionEnd)
  \/ ClientCall(Generate)
  \/ \E r \in RunIds, text \in SummaryTexts :
       Callback(SummariseResolved(r, text))
  \/ \E r \in RunIds, text \in PromptTexts : Callback(PromptResolved(r, text))
  \/ \E r \in RunIds, payload \in ImagePayloads :
       Callback(ImageResolved(r, payload))
  \/ \E r \in RunIds : Callback(StageFailed(r))
  \/ \E size \in UploadSizes : ClientCall(AudioUpload(size))
  \/ \E u \in UploadIds, text \in Texts \cup {<< >>} :
       Callback(AudioResolved(u, text))
  \/ \E req \in CoreConfigRequests : ClientCall(UpdateConfig(req))

Spec == Init /\ [][Next]_vars

\* session lifecycle with the realtime gateway, generation and batch
\* transcription
SessionStartRequests ==
  [apiKey : RequestKeys, phase : {"", "Mission"},
   summarizationWindowMinutes : {0}]

NextSession ==
  \/ \E req \in SessionStartRequests :
       ClientCallUpTo(MaxSessionRequests, SessionStart(req))
  \/ ClientCallUpTo(MaxSessionRequests, SessionEnd)
  \/ ClientCallUpTo(MaxSessionRequests, Generate)
  \/ \E r \in RunIds, text \in SummaryTexts :
       Callback(SummariseResolved(r, text))
  \/ \E r \in RunIds, text \in PromptTexts : Callback(PromptResolved(r, text))
  \/ \E r \in RunIds : Callback(ImageResolved(r, "b64"))
  \/ ClientCallUpTo(MaxSessionRequests, AudioUpload(MinUploadBytes))
  \/ \E u \in UploadIds, text \in Texts : Callback(AudioResolved(u, text))
  \/ ClientCallUpTo(MaxSessionRequests, WsConnect(FreeConn))
  \/ \E c \in ConnIds : Callback(WsClosed(c))
  \/ \E u \in UpstreamIds : Callback(UpstreamOpened(u))

SpecSession == Init /\ [][NextSession]_vars

\* the rolling transcript store under the clock: batch and realtime appends,
\* config updates and generate triggers
StoreStartRequests ==
  [apiKey : {"sk-req"}, phase : {""}, summarizationWindowMinutes : {0}]
StoreConfigRequests ==
  [phase : {""}, summarizationWindowMinutes : {15},
   autoIntervalMinutes : {0}, imageSize : {""}, stylePreset : {""}]

NextStore ==
  \/ now < MaxTicks * TickMs /\ Callback(Tick)
  \/ \E req \in StoreStartRequests :
       ClientCallUpTo(MaxStoreRequests, SessionStart(req))
  \/ \E req \in StoreConfigRequests :
       ClientCallUpTo(MaxStoreRequests, UpdateConfig(req))
  \/ ClientCallUpTo(MaxStoreRequests, Generate)
  \/ \E r \in RunIds : Callback(StageFailed(r))
  \/ ClientCallUpTo(MaxStoreRequests, AudioUpload(MinUploadBytes))
  \/ \E u \in UploadIds, text \in Texts : Callback(AudioResolved(u, text))
  \/ \E u \in UpstreamIds : Callback(UpstreamOpened(u))
  \/ \E u \in UpstreamIds, raw \in RawTexts :
       /\ \E q \in UtteranceIds : rt.polishes[q].pc = "new"
       /\ Callback(UpstreamCompleted(u, raw))
  \/ \E q \in PolishIds, polished \in PolishOutputs :
       Callback(PolishResolved(q, polished))
  \/ \E q \in PolishIds : Callback(PolishFailed(q))

SpecStore == Init /\ [][NextStore]_vars

\* one client filling the gallery: it waits for the answer to a trigger
\* before it sends the next one, uploads audio until a transcript is
\* stored, and may pin, unpin and delete the first image
NextCap ==
  \/ \E req \in StoreStartRequests :
       ClientCallUpTo(MaxCapRequests, ~active /\ SessionStart(req))
  \/ ClientCallUpTo(MaxCapRequests,
                    transcripts = << >> /\ UploadsInFlight = 0
                      /\ AudioUpload(MinUploadBytes))
  \/ \E u \in UploadIds, text \in Texts : Callback(AudioResolved(u, text))
  \/ ClientCallUpTo(MaxCapRequests, ExecutingRuns = {} /\ Generate)
  \/ \E pinned \in BOOLEAN :
       ClientCallUpTo(MaxCapRequests,
                      ImageIndex(1) # 0 /\ PinImage(1, pinned))
  \/ ClientCallUpTo(MaxCapRequests, ImageIndex(1) # 0 /\ DeleteImage(1))
  \/ \E r \in RunIds, text \in SummaryTexts :
       Callback(SummariseResolved(r, text))
  \/ \E r \in RunIds, text \in PromptTexts : Callback(PromptResolved(r, text))
  \/ \E r \in RunIds, payload \in ImagePayloads :
       Callback(ImageResolved(r, payload))
  \/ \E r \in RunIds : Callback(StageFailed(r))

SpecCap == Init /\ [][NextCap]_vars

\* the generation pipeline under the clock, every stage succeeding or
\* failing, the transcript fed by batch uploads, with pin and delete
\* requests on known and unknown image ids
ImageIds == 1..3

NextPipeline ==
  \/ now < MaxTicks * TickMs /\ Callback(Tick)
  \/ \E req \in StoreStartRequests :
       ClientCallUpTo(MaxPipelineRequests, SessionStart(req))
  \/ ClientCallUpTo(MaxPipelineRequests,
                    UploadsInFlight = 0 /\ AudioUpload(MinUploadBytes))
  \/ \E u \in UploadIds, text \in Texts : Callback(AudioResolved(u, text))
  \/ ClientCallUpTo(MaxPipelineRequests, Generate)
  \/ \E r \in RunIds, text \in SummaryTexts :
       Callback(SummariseResolved(r, text))
  \/ \E r \in RunIds, text \in PromptTexts : Callback(PromptResolved(r, text))
  \/ \E r \in RunIds, payload \in ImagePayloads :
       Callback(ImageResolved(r, payload))
  \/ \E r \in RunIds : Callback(StageFailed(r))
  \/ \E id \in ImageIds, pinned \in BOOLEAN :
       ClientCallUpTo(MaxPipelineRequests, PinImage(id, pinned))
  \/ \E id \in ImageIds :
       ClientCallUpTo(MaxPipelineRequests, DeleteImage(id))

SpecPipeline == Init /\ [][NextPipeline]_vars

\* batch transcription step by step: the direct request, the conversion,
\* the retry, under session start and end
NextBatch ==
  \/ \E req \in StoreStartRequests :
       ClientCallUpTo(MaxPipelineRequests, SessionStart(req))
  \/ ClientCallUpTo(MaxPipelineRequests, SessionEnd)
  \/ \E size \in UploadSizes :
       ClientCallUpTo(MaxPipelineRequests, AudioUpload(size))
  \/ \E u \in UploadIds : Callback(DirectFailed(u))
  \/ \E u \in UploadIds, ok \in BOOLEAN : Callback(Converted(u, ok))
  \/ \E u \in UploadIds, text \in Texts \cup {<< >>} :
       Callback(AudioResolved(u, text))
  \/ \E u \in UploadIds : Callback(AudioFailed(u))

SpecBatch == Init /\ [][NextBatch]_vars

\* the realtime gateway: listeners connecting, sending control messages
\* and frames, closing, under session start and end, with realtime
\* processing enabled or disabled
StartFormats == {"pcm16", "webm"}

NextGateway ==
  \/ \E req \in StoreStartRequests :
       ClientCallUpTo(MaxSessionRequests, SessionStart(req))
  \/ ClientCallUpTo(MaxSessionRequests, SessionEnd)
  \/ ClientCallUpTo(MaxSessionRequests, WsConnect(FreeConn))
  \/ \E c \in ConnIds, format \in StartFormats :
       ClientCallUpTo(MaxSessionRequests, WsStart(c, format, ""))
  \/ \E c \in ConnIds : ClientCallUpTo(MaxSessionRequests, WsBinary(c))
  \/ \E c \in ConnIds : Callback(WsClosed(c))
  \/ \E u \in UpstreamIds : Callback(UpstreamOpened(u))
  \/ \E u \in UpstreamIds : Callback(UpstreamFailed(u))

SpecGateway == InitGateway /\ [][NextGateway]_vars

\* the fan-out of the upstream's transcript events to the listeners
NextBroadcast ==
  \/ \E req \in StoreStartRequests :
       ClientCallUpTo(MaxStoreRequests, SessionStart(req))
  \/ ClientCallUpTo(MaxStoreRequests, WsConnect(FreeConn))
  \/ \E c \in ConnIds : Callback(WsClosed(c))
  \/ \E u \in UpstreamIds : Callback(UpstreamOpened(u))
  \/ \E u \in UpstreamIds, itemId \in UtteranceIds, delta \in Deltas :
       Callback(UpstreamDelta(u, itemId, delta))
  \/ \E u \in UpstreamIds, raw \in RawTexts :
       /\ \E q \in UtteranceIds : rt.polishes[q].pc = "new"
       /\ Callback(UpstreamCompleted(u, raw))
  \/ \E q \in PolishIds, polished \in PolishOutputs :
       Callback(PolishResolved(q, polished))
  \/ \E q \in PolishIds : Callback(PolishFailed(q))

SpecBroadcast == Init /\ [][NextBroadcast]_vars

\* the transcript store fed by batch uploads and by the realtime bridge,
\* with listeners, under the clock and session restarts
NextTranscripts ==
  \/ now < MaxTicks * TickMs /\ Callback(Tick)
  \/ \E req \in StoreStartRequests :
       ClientCallUpTo(MaxTranscriptRequests, SessionStart(req))
  \/ ClientCallUpTo(MaxTranscriptRequests, WsConnect(FreeConn))
  \/ ClientCallUpTo(MaxTranscriptRequests,
                    transcripts = << >> /\ UploadsInFlight = 0
                      /\ AudioUpload(MinUploadBytes))
  \/ \E u \in UploadIds, text \in Texts \cup {<< >>} :
       Callback(AudioResolved(u, text))
  \/ \E u \in UpstreamIds : Callback(UpstreamOpened(u))
  \/ \E u \in UpstreamIds, raw \in RawTexts :
       /\ \E q \in UtteranceIds : rt.polishes[q].pc = "new"
       /\ Callback(UpstreamCompleted(u, raw))
  \/ \E q \in PolishIds, polished \in PolishOutputs :
       Callback(PolishResolved(q, polished))
  \/ \E q \in PolishIds : Callback(PolishFailed(q))

SpecTranscripts == Init /\ [][NextTranscripts]_vars

\* the live config: sessions started and ended, config patches with valid,
\* invalid and absent fields, with and without a connected upstream
NextConfig ==
  \/ \E req \in StartRequests :
       ClientCallUpTo(MaxConfigRequests, SessionStart(req))
  \/ ClientCallUpTo(MaxConfigRequests, SessionEnd)
  \/ \E req \in ConfigRequests :
       ClientCallUpTo(MaxConfigRequests, UpdateConfig(req))
  \/ \E u \in UpstreamIds : Callback(UpstreamOpened(u))

SpecConfig == InitGateway /\ [][NextConfig]_vars

\* audio streaming over several listener connections of a session that is
\* started when none is active: start and commit control messages, text
\* frames that do not parse, audio frames, and transcription failures
\* reported by the upstream
StartMimes == {"", "audio/ogg"}

NextStream ==
  \/ \E req \in StoreStartRequests :
       ClientCallUpTo(MaxStreamRequests, ~active /\ SessionStart(req))
  \/ ClientCallUpTo(MaxStreamRequests, SessionEnd)
  \/ ClientCallUpTo(MaxStreamRequests, WsConnect(FreeConn))
  \/ \E c \in ConnIds, format \in StartFormats, mime \in StartMimes :
       ClientCallUpTo(MaxStreamRequests, WsStart(c, format, mime))
  \/ \E c \in ConnIds : ClientCallUpTo(MaxStreamRequests, WsCommit(c))
  \/ \E c \in ConnIds : ClientCallUpTo(MaxStreamRequests, WsMalformed(c))
  \/ \E c \in ConnIds : ClientCallUpTo(MaxStreamRequests, WsBinary(c))
  \/ \E c \in ConnIds : Callback(WsClosed(c))
  \/ \E u \in UpstreamIds : Callback(UpstreamOpened(u))
  \/ \E u \in UpstreamIds, message \in FailureMessages :
       Callback(UpstreamTranscriptionFailed(u, message))

SpecStream == Init /\ [][NextStream]_vars

\* the routing of audio frames and of decoder output to the upstream, for
\* a session that is started when none is active
NextFrames ==
  \/ \E req \in StoreStartRequests :
       ClientCallUpTo(MaxFrameRequests, ~active /\ SessionStart(req))
  \/ ClientCallUpTo(MaxFrameRequests, WsConnect(FreeConn))
  \/ \E c \in ConnIds, format \in StartFormats :
       ClientCallUpTo(MaxFrameRequests, WsStart(c, format, ""))
  \/ \E c \in ConnIds : ClientCallUpTo(MaxFrameRequests, WsBinary(c))
  \/ \E c \in ConnIds : ClientCallUpTo(MaxFrameRequests, TranscoderOutput(c))
  \/ \E c \in ConnIds : Callback(WsClosed(c))
  \/ \E u \in UpstreamIds : Callback(UpstreamOpened(u))

SpecFrames == Init /\ [][NextFrames]_vars

\* several utterances completed by the upstream of one session, each with
\* its own cleanup request in flight, under the clock
NextOrder ==
  \/ now < MaxTicks * TickMs /\ Callback(Tick)
  \/ \E req \in StoreStartRequests :
       ClientCallUpTo(MaxTranscriptRequests, ~active /\ SessionStart(req))
  \/ ClientCallUpTo(MaxTranscriptRequests, WsConnect(FreeConn))
  \/ \E u \in UpstreamIds : Callback(UpstreamOpened(u))
  \/ \E u \in UpstreamIds, raw \in RawTexts :
       /\ \E q \in PolishIds : rt.polishes[q].pc = "new"
       /\ Callback(UpstreamCompleted(u, raw))
  \/ \E q \in PolishIds, polished \in PolishOutputs :
       Callback(PolishResolved(q, polished))
  \/ \E q \in PolishIds : Callback(PolishFailed(q))

SpecOrder == Init /\ [][NextOrder]_vars

\* the pipeline under session end and restart, with every remote call of a
\* run eventually returning or failing
StageDone(r) ==
  \/ \E text \in SummaryTexts : Callback(SummariseResolved(r, text))
  \/ \E text \in PromptTexts : Callback(PromptResolved(r, text))
  \/ \E payload \in ImagePayloads : Callback(ImageResolved(r, payload))
  \/ Callback(StageFailed(r))

NextLive ==
  \/ \E req \in StoreStartRequests :
       ClientCallUpTo(MaxLiveRequests, SessionStart(req))
  \/ ClientCallUpTo(MaxLiveRequests, SessionEnd)
  \/ ClientCallUpTo(MaxLiveRequests,
                    UploadsInFlight = 0 /\ AudioUpload(MinUploadBytes))
  \/ \E u \in UploadIds, text \in Texts : Callback(AudioResolved(u, text))
  \/ ClientCallUpTo(MaxLiveRequests, Generate)
  \/ \E r \in RunIds : StageDone(r)

SpecLive ==
  Init /\ [][NextLive]_vars /\ \A r \in RunIds : WF_vars(StageDone(r))

\* the shipped browser client (src/client/src/App.tsx): on 'open' it sends
\* {type: 'start', mime: preferredMime, chunkMs} with no format field, and
\* afterwards raw 16-bit PCM frames from onaudioprocess
ClientMimes == {"", "audio/ogg", "audio/webm"}
clientStartMessage(preferredMime) ==
  [type |-> "start", mime |-> preferredMime, format |-> ""]

ClientStart(c, preferredMime) ==
  /\ conns[c].state = "open" /\ ~conns[c].started
  /\ WsStart(c, clientStartMessage(preferredMime).format,
             clientStartMessage(preferredMime).mime)

ClientSendPcm(c) ==
  /\ conns[c].state = "open" /\ conns[c].started
  /\ WsBinary(c)

NextClient ==
  \/ \E req \in StoreStartRequests :
       ClientCallUpTo(MaxFrameRequests, ~active /\ SessionStart(req))
  \/ ClientCallUpTo(MaxFrameRequests, SessionEnd)
  \/ ClientCallUpTo(MaxFrameRequests, WsConnect(FreeConn))
  \/ \E c \in ConnIds, preferredMime \in ClientMimes :
       ClientCallUpTo(MaxFrameRequests, ClientStart(c, preferredMime))
  \/ \E c \in ConnIds : ClientCallUpTo(MaxFrameRequests, ClientSendPcm(c))
  \/ \E c \in ConnIds : ClientCallUpTo(MaxFrameRequests, TranscoderOutput(c))
  \/ \E c \in ConnIds : Callback(WsClosed(c))
  \/ \E u \in UpstreamIds : Callback(UpstreamOpened(u))

SpecClient == Init /\ [][NextClient]_vars

\* ===================================================== claims
\* C1: at every instant at most one generation pipeline run is executing
\* (between its first request and its return or throw), whatever the
\* interleaving of triggers, stage completions, session end and start.
C1_AtMostOneRunExecuting == Cardinality(ExecutingRuns) <= 1

\* C2 as stated: when a run started by a trigger ends and at least one
\* trigger was queued while it was executing, exactly one further run is
\* started at that moment.
C2_RerunAfterEveryBusyRun ==
  (step.finished = 1 /\ step.runKind = "trigger" /\ step.queuedDuring >= 1)
    => step.reruns = 1

\* C2 amended: the end of a triggered run starts exactly one further run
\* when one or more triggers were queued since the pending flag was last
\* clear (by the end of a triggered run or by a session reset), however
\* many they were, and none otherwise; no run is started in any other way
\* than by a trigger or by this one rerun.
C2_QueuedTriggersCollapse ==
  /\ (step.finished = 1 /\ step.runKind = "trigger")
       => step.reruns = IF step.queuedBefore >= 1 THEN 1 ELSE 0
  /\ step.runKind # "trigger" => step.reruns = 0
  /\ step.started =
       step.reruns + (IF step.op = "generate" /\ step.runKind = "trigger"
                      THEN 1 ELSE 0)
  /\ pendingTrigger <=> queuedSince >= 1

C2_Witness ==
  /\ step.finished = 1 /\ step.runKind = "trigger"
  /\ step.queuedBefore >= 2 /\ step.reruns = 1
  /\ \E r \in RunIds : runs[r].kind = "rerun" /\ Executing(r)

\* C3: a trigger on an active session with generationInProgress set starts
\* no run, sets pendingTrigger, answers "queued" and leaves images,
\* lastSummary, lastError and generationInProgress as they were.
C3_BusyTriggerOnlyQueues ==
  [][(step'.op = "generate" /\ active /\ generationInProgress)
       => /\ pendingTrigger'
          /\ step'.result = "queued"
          /\ step'.started = 0 /\ step'.remoteCalls = 0
          /\ [r \in RunIds |-> runs'[r].pc] = [r \in RunIds |-> runs[r].pc]
          /\ UNCHANGED <<images, lastSummary, lastError,
                         generationInProgress>>]_vars

C3_Witness ==
  /\ step.op = "generate" /\ step.result = "queued"
  /\ images # << >> /\ lastSummary # None /\ lastError # Null

\* C4: an asynchronous continuation (pipeline stage, batch transcription)
\* that resumes after the session it started in was reset changes nothing
\* in the session that exists then.
C4_StaleResultDiscarded ==
  [][step'.stale
       => UNCHANGED <<transcripts, images, lastSummary, lastPrompt, lastError,
                      generationInProgress, pendingTrigger>>]_vars

\* C5: right after POST /api/session/end, whatever came before, the status
\* snapshot shows an inactive session, no transcripts, no images, no
\* summary, both generation flags clear, no error and the default config.
C5_EndShowsEmptyStatus ==
  step.op = "end" =>
    /\ Status.sessionActive = FALSE
    /\ Status.transcripts = << >>
    /\ Status.images = << >>
    /\ Status.lastSummary = None
    /\ Status.generationInProgress = FALSE
    /\ Status.pendingTrigger = FALSE
    /\ Status.lastError = Null
    /\ Status.config = defaultConfig

\* an end that hit a session in the middle of a triggered run and with a
\* listener attached
C5_Witness ==
  /\ step.op = "end"
  /\ \E r \in RunIds : Executing(r) /\ runs[r].kind = "trigger"
  /\ \E c \in ConnIds : conns[c].state = "closing"

\* every stored entry is inside the transcript window at the current time
StoreInsideWindow ==
  \A i \in 1..Len(transcripts) :
    transcripts[i].timestamp >= now - config.transcriptWindowMinutes * 60 * 1000

\* C6 as stated: right after every state-mutating call (an append of a
\* batch or realtime transcript, a config update, a generate trigger, a pin,
\* a delete) no stored entry is older than the current time minus
\* transcriptWindowMinutes.
C6_NoOldEntryAfterMutatingCall ==
  (step.appended = 1 \/ step.op \in {"config", "generate", "pin", "delete"})
    => StoreInsideWindow

\* C6 amended: right after every append of a batch or realtime transcript
\* no stored entry is older than the current time minus
\* transcriptWindowMinutes; the other mutating calls do not trim.
C6_NoOldEntryAfterAppend == step.appended = 1 => StoreInsideWindow

\* an append that evicted an entry which had aged out of the window
C6_Witness ==
  /\ step.appended = 1 /\ step.trimmed >= 1
  /\ transcripts # << >>

\* C7: a start with no key in the request and none in the environment is
\* answered with 'API key is required to start a session' and changes
\* nothing: not the session, not its realtime upstream and listeners, not
\* any run or upload in flight.
C7_StartWithoutKeyChangesNothing ==
  [][(step'.op = "start" /\ step'.arg = "" /\ envKey = Null)
       => /\ step'.result = "error"
          /\ step'.error = "API key is required to start a session"
          /\ UNCHANGED <<sessionVars, runs, uploads, upstreams, conns, rt,
                         nextImageId, epoch>>]_vars

C7_Witness ==
  /\ step.op = "start" /\ step.result = "error"
  /\ active /\ transcripts # << >> /\ realtime.clients # {}
  /\ generationInProgress

ImageAnswered ==
  /\ Len(step'.image) = 1
  /\ step'.image[1].phase = config.phase
  /\ step'.image[1].summary = runs[step'.run].summary
  /\ step'.image[1].prompt = runs[step'.run].prompt
  /\ step'.image[1].summary # "" /\ step'.image[1].prompt # ""
  /\ Status'.images # << >>
  /\ Head(Status'.images) = step'.image[1]

\* C9 as stated: on an active session with text in the summarization
\* window, a trigger received with no run in progress whose three stages
\* succeed returns one image record with the configured phase and the
\* non-empty stage outputs; the image is in the status snapshot and the
\* image count has grown by exactly one.
C9_GenerateAddsOneImage ==
  [][(step'.op = "rendered" /\ step'.runKind = "trigger"
        /\ step'.result = "image" /\ active)
       => /\ ImageAnswered
          /\ Len(images') = Len(images) + 1]_vars

\* C9 amended: the same, the image count growing by exactly one while the
\* list holds fewer than 20 images and staying at 20 once it is full (the
\* oldest record is dropped).
C9_GenerateAddsOneImageUpToCap ==
  [][(step'.op = "rendered" /\ step'.runKind = "trigger"
        /\ step'.result = "image" /\ active)
       => /\ ImageAnswered
          /\ Len(images') = IF Len(images) < MaxImages THEN Len(images) + 1
                            ELSE MaxImages]_vars

\* the image answered when the gallery was already full
C9_Witness ==
  /\ step.op = "rendered" /\ step.result = "image"
  /\ Len(images) = MaxImages /\ nextImageId = MaxImages + 2
  /\ images[1].id = MaxImages + 1

\* no stored entry lies in the summarization window
SummaryWindowEmpty ==
  \A i \in 1..Len(transcripts) :
    transcripts[i].timestamp
      < now - config.summarizationWindowMinutes * 60 * 1000

\* C10 as stated: a trigger on an active session whose summarization-window
\* text is empty is answered with the not-enough-transcript error before
\* any remote call, adds no image, sets lastError to that message and
\* leaves generationInProgress false.
C10_EmptyWindowTriggerFails ==
  [][(step'.op = "generate" /\ active /\ SummaryWindowEmpty)
       => /\ step'.result = "error"
          /\ step'.error = "Not enough transcript to generate"
          /\ step'.remoteCalls = 0 /\ step'.started = 1
          /\ lastError' = "Not enough transcript to generate"
          /\ ~generationInProgress'
          /\ UNCHANGED <<images, runs>>]_vars

\* C10 amended: the same for a trigger received while generationInProgress
\* is false; a trigger received while it is true is queued whatever the
\* window holds.
C10_IdleEmptyWindowTriggerFails ==
  [][(step'.op = "generate" /\ active /\ SummaryWindowEmpty
        /\ ~generationInProgress)
       => /\ step'.result = "error"
          /\ step'.error = "Not enough transcript to generate"
          /\ step'.remoteCalls = 0 /\ step'.started = 1
          /\ lastError' = "Not enough transcript to generate"
          /\ ~generationInProgress'
          /\ UNCHANGED <<images, runs>>]_vars

\* the error was answered although the store still holds an entry, which
\* has left the summarization window
C10_Witness ==
  /\ step.op = "generate"
  /\ step.error = "Not enough transcript to generate"
  /\ transcripts # << >> /\ SummaryWindowEmpty

\* the message of the failure a step reports for a stage of a run
StageFailureMessage ==
  CASE step'.op = "stage failed" -> "OpenAI request failed"
    [] step'.op = "rendered" -> "No image data returned from OpenAI"
    [] OTHER -> "Missing OpenAI API key"

\* what C11 says of a failed stage apart from lastError: the run is over,
\* its request is not sent again, the images are as they were, and a run
\* starts at that moment only for a queued trigger
StageFailureAborts ==
  /\ runs'[step'.run].pc = "new"
  /\ images' = images
  /\ step'.started <= (IF pendingTrigger THEN 1 ELSE 0)
  /\ step'.remoteCalls <= step'.started
  /\ Cardinality(ExecutingRuns') <= Cardinality(ExecutingRuns) - 1
                                     + step'.started

\* C11 as stated: when a stage of a run fails the run stops there with no
\* retry, the image list is unchanged, lastError holds the failure message
\* and no run starts unless a trigger had been queued (or a new trigger
\* arrives).
C11_StageFailureRecorded ==
  [][(step'.failed = 1 /\ step'.run # 0)
       => /\ StageFailureAborts
          /\ lastError' = StageFailureMessage]_vars

\* C11 amended: the same, lastError holding the stage's failure message
\* unless the queued trigger's run, started at that moment, fails at once
\* for lack of transcript: then lastError holds that run's message.
C11_StageFailureOrRerunFailureRecorded ==
  [][(step'.failed = 1 /\ step'.run # 0)
       => /\ StageFailureAborts
          /\ lastError' =
               IF step'.reruns = 1 /\ step'.remoteCalls = 0
               THEN "Not enough transcript to generate"
               ELSE StageFailureMessage]_vars

\* the image stage of a triggered run failed with an image already stored
\* and a trigger queued, whose run is now executing
C11_Witness ==
  /\ step.failed = 1 /\ step.op = "rendered" /\ step.reruns = 1
  /\ images # << >>
  /\ lastError = "No image data returned from OpenAI"
  /\ \E r \in RunIds : runs[r].kind = "rerun" /\ Executing(r)

\* the image list is ordered newest first and within the cap
NewestFirstWithinCap ==
  /\ Len(images) <= MaxImages
  /\ \A i \in 1..Len(images) - 1 :
       /\ images[i].id > images[i + 1].id
       /\ images[i].createdAt >= images[i + 1].createdAt

C13_UnknownImageIdChangesNothing ==
  [][(step'.op \in {"pin", "delete"}
        /\ \A i \in 1..Len(images) : images[i].id # step'.id)
       => /\ step'.result = "error"
          /\ step'.error = "Image not found"
          /\ UNCHANGED <<sessionVars, runs, uploads, upstreams, conns, rt,
                         nextImageId, epoch>>]_vars

\* a delete of an unknown id on a session that holds a pinned image
C13_Witness ==
  /\ step.op = "delete" /\ step.result = "error"
  /\ \E i \in 1..Len(images) : images[i].pinned /\ ~images[i].deleted

\* the image with this id is stored after the step, marked deleted
StoredDeleted(id) ==
  \E j \in 1..Len(images') : images'[j].id = id /\ images'[j].deleted

\* C14 as stated: a soft-deleted image stays in the image storage with
\* deleted = true until the session ends or restarts; no generate, pin,
\* delete or config operation removes it.
C14_DeletedImageStaysStored ==
  [][/\ (step'.op = "delete" /\ step'.result = "ok")
          => StoredDeleted(step'.id)
     /\ step'.op \notin {"start", "end"}
          => \A i \in 1..Len(images) :
               images[i].deleted => StoredDeleted(images[i].id)]_vars

\* C14 amended: the same, except that a completed run which finds the list
\* full drops the oldest image, deleted or not.
C14_DeletedImageStaysUntilDropped ==
  [][/\ (step'.op = "delete" /\ step'.result = "ok")
          => StoredDeleted(step'.id)
     /\ step'.op \notin {"start", "end"}
          => \A i \in 1..Len(images) :
               (images[i].deleted /\ step'.dropped # Some(images[i]))
                 => StoredDeleted(images[i].id)]_vars

\* the deleted first image is still the last of a full list
C14_Witness ==
  /\ step.op = "rendered" /\ step.failed = 0
  /\ Len(images) = MaxImages /\ images[MaxImages].deleted
  /\ images[MaxImages].id = 1

\* the snapshot's images are the stored images not marked deleted, each
\* once, in stored order (stored order is by descending id)
SnapshotListsUndeleted ==
  /\ \A j \in 1..Len(Status.images) :
       /\ ~Status.images[j].deleted
       /\ \E i \in 1..Len(images) : images[i] = Status.images[j]
  /\ Len(Status.images) =
       Cardinality({i \in 1..Len(images) : ~images[i].deleted})
  /\ \A j \in 1..Len(Status.images) - 1 :
       Status.images[j].id > Status.images[j + 1].id

\* C15: a status snapshot lists exactly the stored images whose deleted
\* flag is false, in stored order; once delete succeeded on an image no
\* later snapshot lists it, no operation clearing the flag.
C15_SnapshotHidesDeletedForGood ==
  [][/\ SnapshotListsUndeleted'
     /\ (step'.op = "delete" /\ step'.result = "ok")
          => \A j \in 1..Len(Status'.images) :
               Status'.images[j].id # step'.id
     /\ \A i \in 1..Len(images) :
          images[i].deleted
            => /\ \A j \in 1..Len(Status'.images) :
                    Status'.images[j].id # images[i].id
               /\ \A j \in 1..Len(images') :
                    images'[j].id = images[i].id => images'[j].deleted]_vars

\* a later run has added an image next to a deleted one
C15_Witness ==
  /\ step.op = "rendered" /\ step.failed = 0
  /\ Len(Status.images) = 1 /\ Len(images) = 2
  /\ images[2].deleted /\ ~images[1].deleted

\* C16: while no session is active a batch upload, a generate trigger and
\* a config update are each answered 'No active session', send no remote
\* request, start no run and change nothing of the session.
C16_InactiveSessionRejects ==
  [][(step'.op \in {"audio", "generate", "config"} /\ ~active)
       => /\ step'.result = "error"
          /\ step'.error = "No active session"
          /\ step'.remoteCalls = 0 /\ step'.started = 0
          /\ UNCHANGED <<sessionVars, runs, uploads, upstreams, conns, rt,
                         nextImageId, epoch>>]_vars

\* a config update rejected after the session was ended under a run that
\* is still executing
C16_Witness ==
  /\ step.op = "config" /\ step.error = "No active session"
  /\ ~active /\ ExecutingRuns # {}

\* C17: a batch upload whose buffer is smaller than 1024 bytes is rejected
\* with an error before any transcode or transcription request, and the
\* transcript store and lastError are as they were.
C17_SmallUploadRejected ==
  [][(step'.op = "audio" /\ step'.size < 1024)
       => /\ step'.result = "error"
          /\ active => step'.error = "Audio chunk too small"
          /\ step'.remoteCalls = 0
          /\ UNCHANGED <<transcripts, lastError, uploads>>]_vars

\* a small upload rejected on a session that has a transcript and an error
C17_Witness ==
  /\ step.op = "audio" /\ step.size = 1023
  /\ step.error = "Audio chunk too small"
  /\ transcripts # << >> /\ lastError # Null

\* C18: a batch transcription reports final failure only after a second
\* transcription request was made, on the audio transcoded to WAV or on the
\* original buffer if transcoding failed; an upload makes at most two
\* transcription requests and no transcoding when the direct one succeeds;
\* the final failure appends nothing and records lastError.
C18_FailureOnlyAfterRetry ==
  [][/\ \A u \in UploadIds :
          uploads'[u].calls <= 2 /\ uploads'[u].transcodes <= 1
     /\ step'.op = "transcribe failed"
          => /\ uploads[step'.upload].calls = 2
             /\ uploads[step'.upload].transcodes = 1
             /\ step'.error = "Transcription failed"
             /\ transcripts' = transcripts
             /\ lastError' # Null
     /\ (step'.op = "transcribed" /\ uploads[step'.upload].calls = 1)
          => uploads[step'.upload].transcodes = 0
     /\ step'.op = "converted"
          => /\ uploads[step'.upload].calls = 1
             /\ uploads[step'.upload].transcodes = 1]_vars

\* the final failure of an upload on a session that holds a transcript
C18_Witness ==
  /\ step.op = "transcribe failed"
  /\ active /\ transcripts # << >>
  /\ lastError = "OpenAI request failed"

\* C19: a streaming connection opened while no session is active or while
\* realtime processing is disabled is closed at connect time: it is never
\* in the listener set, gets no ready event, and no frame it sends reaches
\* the upstream or spawns a decode process.
C19_RejectedConnectionStaysOut ==
  [][/\ (step'.op = "ws connect" /\ (~active \/ ~realtimeEnabled))
          => /\ conns'[step'.conn].state = "rejected"
             /\ step'.ready = 0 /\ step'.result = "closed"
             /\ realtime' = realtime
     /\ \A c \in ConnIds :
          conns[c].state = "rejected"
            => /\ conns'[c] = conns[c]
               /\ c \notin realtime'.clients
               /\ (step'.conn = c /\ step'.op \in {"ws start", "ws frame"})
                    => /\ step'.forwarded = 0 /\ step'.spawned = 0
                       /\ UNCHANGED <<sessionVars, upstreams, conns>>]_vars

\* a frame of a connection that was closed at connect time arrives while a
\* session is active with an open upstream
C19_Witness ==
  /\ step.op = "ws frame" /\ conns[step.conn].state = "rejected"
  /\ active /\ realtimeEnabled /\ realtime.upstream # 0

\* the listeners of the session whose socket is open
OpenListeners ==
  {c \in ConnIds : c \in realtime.clients /\ conns[c].state = "open"}

\* a non-empty delta goes, id and content unchanged, to every open
\* listener, and the store is as it was
DeltaFannedOut ==
  (step'.op = "delta" /\ step'.emitted[1].text # << >>)
    => /\ step'.sent = OpenListeners
       /\ step'.event = Some([type |-> "transcript_delta",
                              itemId |-> step'.emitted[1].itemId,
                              text |-> step'.emitted[1].text])
       /\ transcripts' = transcripts

\* C20 as stated: every partial delta and every final transcript event the
\* upstream emits is sent, same utterance id and content, to every listener
\* open at that moment, so two listeners of a session get the same events;
\* partial deltas never change the transcript store.
C20_EventsFannedOutAsEmitted ==
  [][/\ DeltaFannedOut
     /\ step'.op = "delta" => transcripts' = transcripts
     /\ step'.op = "utterance"
          => /\ step'.sent = OpenListeners
             /\ step'.event = Some([type |-> "transcript_final",
                                    itemId |-> step'.emitted[1].itemId,
                                    text |-> step'.emitted[1].text])]_vars

\* C20 amended: deltas as stated; the final event is sent when the
\* transcript cleanup has returned, with the utterance id and the cleaned
\* text that is stored, to every listener open at that later moment, and
\* not at all when the cleaned text is empty.
C20_FinalFannedOutAfterCleanup ==
  [][/\ DeltaFannedOut
     /\ step'.op = "delta" => transcripts' = transcripts
     /\ (step'.op \in {"utterance", "polished", "polish failed"}
           /\ step'.appended = 1)
          => /\ step'.sent = OpenListeners
             /\ step'.event =
                  Some([type |-> "transcript_final",
                        itemId |-> transcripts'[Len(transcripts')].itemId,
                        text |-> transcripts'[Len(transcripts')].text])
     /\ (step'.op \in {"utterance", "polished", "polish failed"}
           /\ step'.appended = 0)
          => step'.sent = {} /\ step'.event = None]_vars

\* a final event sent to two listeners
C20_Witness ==
  /\ step.op = "polished" /\ Cardinality(step.sent) = 2
  /\ step.event # None /\ step.event[1].type = "transcript_final"

\* the stored entries that carry the text, utterance id and timestamp of
\* the final event just sent
EntriesOfEvent ==
  {i \in 1..Len(transcripts') :
     /\ transcripts'[i].text = step'.event[1].text
     /\ transcripts'[i].itemId = step'.event[1].itemId
     /\ transcripts'[i].timestamp = step'.timestamp}

\* every stored text is what sanitizeTranscript lets through
StoredTextsSanitized ==
  \A i \in 1..Len(transcripts) :
    /\ transcripts[i].text # << >>
    /\ sanitizeTranscript(transcripts[i].text) = transcripts[i].text
    /\ \E j \in 1..Len(transcripts[i].text) :
         transcripts[i].text[j] \notin PunctChars \cup SpaceChars

C22_AtMostOneUpstream ==
  Cardinality({u \in UpstreamIds :
                 upstreams[u] \in {"connecting", "open"}}) <= 1

\* C23: when end() returns, close has been requested on the realtime
\* upstream and on every listener connection of the ended session, and the
\* session's realtime state has no upstream handle, an empty listener set
\* and status disconnected.
C23_EndDisconnectsRealtime ==
  [][step'.op = "end"
       => /\ \A u \in UpstreamIds :
               upstreams[u] \in {"connecting", "open"}
                 => upstreams'[u] = "closed"
          /\ \A c \in ConnIds :
               conns[c].state = "open" => conns'[c].state = "closing"
          /\ realtime' = makeRealtimeState]_vars

\* C24: in every reachable state the configured phase is one of Vision,
\* Mission, Strategic objectives, KPIs, Other: an accepted start or config
\* update carrying any other phase value leaves the phase at the default
\* Vision.
C24_PhaseAlwaysValid ==
  /\ [](config.phase \in PHASES)
  /\ [][(/\ step'.op \in {"start", "config"} /\ step'.result = "ok"
          /\ step'.patch[1].phase \notin PHASES \cup {""})
         => config'.phase = "Vision"]_vars

\* a config update with an unknown phase on a session whose phase was set
\* to something else: the phase is back at Vision
C24_Witness ==
  /\ step.op = "config" /\ step.result = "ok"
  /\ step.patch[1].phase = "Bogus" /\ config.phase = "Vision"
  /\ config.summarizationWindowMinutes = 15

\* C25: updateConfig(partial) on an active session sets every
\* field provided in the patch (phase, language mode, workshop label, auto
\* interval, image size, style preset, summarization window) to the
\* provided value, leaves every field not provided unchanged, and returns
\* the merged config (the phase re-validated: an unknown one becomes Vision).
C25_PatchSetsEveryProvidedField ==
  [][(step'.op = "config" /\ step'.result = "ok")
       => LET p == step'.patch[1] IN
          /\ config'.phase = IF p.phase = "" THEN config.phase
                             ELSE IF p.phase \in PHASES THEN p.phase
                             ELSE "Vision"
          /\ \A f \in {"languageMode", "workshopType", "imageSize",
                        "stylePreset"} :
               config'[f] = IF StrField(p, f) # "" THEN p[f] ELSE config[f]
          /\ \A f \in {"autoIntervalMinutes", "summarizationWindowMinutes"} :
               config'[f] = IF p[f] # 0 THEN p[f] ELSE config[f]
          /\ step'.config = Some(config')]_vars

\* C26: updateConfig never opens, closes or replaces the realtime
\* upstream: when the session holds a connected upstream, a session update
\* carrying the recognition settings of the merged config is sent on that
\* same handle, and when it holds none nothing is sent and none is created.
C26_UpdatePushedOnSameHandle ==
  [][step'.op = "config"
       => /\ upstreams' = upstreams
          /\ realtime' = realtime
          /\ (step'.result = "ok" /\ realtime.upstream # 0)
               => step'.update =
                    Some([to |-> realtime.upstream,
                          session |-> buildRealtimeSessionConfig(config')])
          /\ (step'.result # "ok" \/ realtime.upstream = 0)
               => step'.update = None]_vars

\* a new phase pushed to the connected upstream
C26_Witness ==
  /\ step.op = "config" /\ step.update # None
  /\ step.update[1].to = realtime.upstream
  /\ upstreams[realtime.upstream] = "open"
  /\ step.update[1].session.phase = "KPIs"

\* C27: after end() has returned and until the next start(), the server
\* initiates no remote call (summarise, build prompt, render image,
\* transcription, transcript cleanup, upstream connection), including calls
\* that belong to a pipeline run or an audio upload that was in flight when
\* the session ended.
C27_NoRemoteCallAfterEnd ==
  [][(~active /\ step'.op # "start") => step'.remoteCalls = 0]_vars

\* s is t with some entries left out, the others in the same order
RECURSIVE IsSubSeq(_, _)
IsSubSeq(s, t) ==
  IF s = << >> THEN TRUE
  ELSE IF t = << >> THEN FALSE
  ELSE IF Head(s) = Head(t) THEN IsSubSeq(Tail(s), Tail(t))
  ELSE IsSubSeq(s, Tail(t))

\* the entries behind the summarization-window text and behind the
\* transcript-window text
SummaryWindowEntries ==
  WindowEntries(transcripts, config.summarizationWindowMinutes, now)
TranscriptWindowEntries == trimTranscripts(transcripts, config, now)

\* C28: whenever summarizationWindowMinutes <= transcriptWindowMinutes, the
\* entries that make up the summarization-window text are a subset of the
\* entries that make up the transcript-window text, in the same order.
C28_SummaryWindowInsideTranscriptWindow ==
  config.summarizationWindowMinutes <= config.transcriptWindowMinutes
    => IsSubSeq(SummaryWindowEntries, TranscriptWindowEntries)

\* an entry inside both windows after one that is only inside the
\* transcript window
C28_Witness ==
  /\ config.summarizationWindowMinutes <= config.transcriptWindowMinutes
  /\ Len(SummaryWindowEntries) = 1 /\ Len(TranscriptWindowEntries) = 2

\* the sockets, the listener set, the upstreams, the connections' routing
\* and the transcript store are as they were
StreamUntouched ==
  /\ transcripts' = transcripts
  /\ upstreams' = upstreams
  /\ realtime' = realtime
  /\ \A c \in ConnIds :
       /\ conns'[c].state = conns[c].state
       /\ conns'[c].passthroughPcm = conns[c].passthroughPcm
       /\ conns'[c].transcoder = conns[c].transcoder
       /\ conns'[c].decoder = conns[c].decoder

\* C29: an upstream transcription failure and a malformed control message
\* are each turned into an event to the client (transcript_error broadcast
\* to the listeners, error sent to the offending connection) and otherwise
\* change nothing: the listener connections and the upstream stay open, no
\* transcript entry is added, and later audio frames on the same
\* connection are still processed.
C29_ErrorsBecomeEvents ==
  [][/\ step'.op = "transcription failed"
          => /\ step'.event # None
             /\ step'.event[1].type = "transcript_error"
             /\ step'.sent = OpenListeners
             /\ StreamUntouched
     /\ (step'.op = "ws malformed" /\ step'.result # "ignored")
          => /\ step'.result = "error"
             /\ (active /\ realtimeEnabled)
                  => step'.error = "Invalid control message"
             /\ StreamUntouched
     /\ (/\ step'.op = "ws frame" /\ conns[step'.conn].erred
         /\ conns[step'.conn].state = "open" /\ active /\ realtimeEnabled)
          => step'.result \in {"sent", "awaiting upstream", "transcoding"}
    ]_vars

\* an audio frame sent to the upstream for a connection that was sent an
\* error event before
C29_Witness ==
  /\ step.op = "ws frame" /\ step.result = "sent"
  /\ conns[step.conn].erred /\ conns[step.conn].state = "open"

\* C30: streaming connections are independent: the input representation
\* negotiated by one connection's start control message (container name or
\* raw-PCM passthrough) never changes how another connection's audio
\* frames are routed or decoded.
C30_ConnectionsIndependent ==
  [][/\ \A c \in ConnIds :
          (step'.op = "ws start" /\ step'.conn # c)
            => conns'[c].passthroughPcm = conns[c].passthroughPcm
     /\ (step'.op = "ws frame" /\ step'.spawned = 1)
          => conns'[step'.conn].decoder =
               inputFormatFlags(conns[step'.conn].ownMime)]_vars

\* C31: when a listener connection closes or errors, on every path
\* including being closed by session end, it is removed from the listener
\* set and its decode process, if one exists, has its input closed and is
\* terminated; afterwards no decode process of a closed connection is alive
\* and none is spawned for it again.
C31_ClosedConnectionHasNoDecoder ==
  /\ [](\A c \in ConnIds :
          conns[c].state = "closed"
            => ~conns[c].transcoder /\ c \notin realtime.clients)
  /\ [][\A c \in ConnIds :
          conns[c].state = "closed"
            => conns'[c].state = "closed" /\ ~conns'[c].transcoder]_vars

\* the close event of a connection that session end had closed while its
\* decode process was running
C31_Witness ==
  /\ step.op = "ws closed" /\ step.killed = 1 /\ ~active
  /\ \E c \in ConnIds : conns[c].state = "closed"

\* the chunks of connection c still waiting for an upstream
WaitingChunks(c, kind) ==
  {u \in UpstreamIds : rt.frames[u].conn = c /\ rt.frames[u].kind = kind}

\* C32: for each connection, a binary frame is forwarded unchanged to the
\* upstream when the connection's most recent start message negotiated raw
\* PCM, and is otherwise written to the connection's own decode process,
\* whose output is forwarded to the upstream in the order produced; a
\* connection has at most one live decode process at a time, spawned on
\* its first audio frame.
C32_FramesRoutedPerConnection ==
  [][/\ (step'.op = "ws frame" /\ step'.result \notin {"ignored", "error"})
          => IF conns[step'.conn].passthroughPcm
             THEN /\ step'.result \in {"sent", "awaiting upstream"}
                  /\ conns' = conns
             ELSE /\ step'.result = "transcoding"
                  /\ conns'[step'.conn].transcoder
                  /\ step'.spawned = IF conns[step'.conn].transcoder
                                     THEN 0 ELSE 1
                  /\ \A d \in ConnIds \ {step'.conn} : conns'[d] = conns[d]
     /\ (step'.forwarded = 1 /\ step'.kind = "decoded")
          => \A u \in WaitingChunks(step'.conn, "decoded") :
               rt'.frames[u] # NoFrame => rt.frames[u].seq > step'.frame
    ]_vars

\* the transitions the connection status is allowed to make
StatusTransitions ==
  {<<"disconnected", "connecting">>, <<"connecting", "connected">>,
   <<"connected", "disconnected">>, <<"connected", "error">>}

\* C33: the realtime connection status is always one of disconnected,
\* connecting, connected, error, and it changes only from disconnected to
\* connecting, from connecting to connected, and from connected to
\* disconnected or error.
C33_StatusLifecycle ==
  /\ [](realtime.status \in
         {"disconnected", "connecting", "connected", "error"})
  /\ [][realtime'.status # realtime.status
          => <<realtime.status, realtime'.status>> \in StatusTransitions]_vars

\* the runs of the session that exists now which are executing
CurrentRuns == {r \in ExecutingRuns : runs[r].epoch = epoch}

\* C34: generationInProgress is true in every state in which a pipeline
\* run is executing, a queued rerun included, so the flag reported by
\* status is true for the whole duration of every run, and a trigger that
\* arrives during a rerun is queued rather than started.
C34_FlagCoversEveryRun ==
  /\ [](CurrentRuns # {} => generationInProgress)
  /\ [][(step'.op = "generate" /\ active /\ CurrentRuns # {})
          => step'.result = "queued" /\ step'.started = 0]_vars

\* C35: the phase recorded on a generated image, and the phase recorded on
\* the lastSummary written by the same run, equal the phase that was sent
\* to the summarise stage of that run, even when updateConfig changes the
\* phase while the run is in flight (runs of the session that exists now).
C35_RecordedPhaseIsSentPhase ==
  [][/\ (step'.op = "summarised" /\ ~step'.stale)
          => lastSummary'[1].phase = runs[step'.run].phaseSent
     /\ (step'.op = "rendered" /\ ~step'.stale /\ step'.failed = 0)
          => images'[1].phase = runs[step'.run].phaseSent]_vars

\* C36: final transcripts are appended to the store, and transcript_final
\* events are sent to listeners, in the order in which the upstream
\* completed the utterances (item ids count the completions), even when
\* the cleanup of an earlier utterance finishes after that of a later one;
\* stored entries always have non-decreasing timestamps.
C36_FinalsInCompletionOrder ==
  /\ [](\A i, j \in 1..Len(transcripts) :
          i < j => /\ transcripts[i].timestamp <= transcripts[j].timestamp
                   /\ transcripts[i].itemId < transcripts[j].itemId)
  /\ [][(step'.event # None /\ step'.event[1].type = "transcript_final")
          => \A q \in PolishIds :
               rt'.polishes[q].pc = "polish"
                 => rt'.polishes[q].itemId > step'.event[1].itemId]_vars

\* C37: in every reachable state in which the session is inactive, the
\* realtime state has no upstream handle and no listener connections: an
\* upstream attempt that completes after end(), or decoder output or a
\* control message handled after end(), never attaches an upstream to the
\* inactive session.
C37_InactiveSessionHasNoRealtime ==
  ~active => realtime.upstream = 0 /\ realtime.clients = {}

\* C38: in every reachable state pendingTrigger = true implies
\* generationInProgress = true: the pending flag is set only while the
\* flag of a run in progress is set, and it is cleared in the same step
\* that clears generationInProgress or resets the session.
C38_PendingOnlyWhileBusy ==
  /\ [](pendingTrigger => generationInProgress)
  /\ [][/\ (pendingTrigger' /\ ~pendingTrigger)
             => generationInProgress /\ generationInProgress'
        /\ (pendingTrigger /\ ~pendingTrigger')
             => /\ ~generationInProgress'
                /\ \/ step'.finished = 1 /\ step'.runKind = "trigger"
                   \/ step'.op \in {"start", "end"}]_vars

C38_Witness ==
  /\ step.finished = 1 /\ step.runKind = "trigger" /\ step.failed = 1
  /\ step.queuedBefore >= 1 /\ step.reruns = 1
  /\ ~pendingTrigger /\ ~generationInProgress

\* C39: provided every remote call eventually returns or fails, every
\* generate trigger that sets generationInProgress eventually leads to a
\* state where generationInProgress and pendingTrigger are both false,
\* whether the stages succeed or fail and whether the session is ended or
\* restarted meanwhile; the busy state is never stuck.
C39_BusyStateEnds ==
  generationInProgress ~> (~generationInProgress /\ ~pendingTrigger)

C39_Witness ==
  /\ step.finished = 1 /\ step.runKind = "trigger" /\ step.stale
  /\ ~generationInProgress /\ ~pendingTrigger

\* C40: the audio frames sent by the shipped browser client, raw 16-bit
\* PCM samples preceded by the client's start control message, are handled
\* by the gateway in raw-PCM passthrough mode and reach the upstream
\* without passing through a decode process.
C40_ClientFramesPassThrough ==
  [][(/\ step'.op = "ws frame"
      /\ conns[step'.conn].state = "open" /\ conns[step'.conn].started
      /\ active /\ realtimeEnabled)
       => /\ conns[step'.conn].passthroughPcm
          /\ step'.result \in {"sent", "awaiting upstream"}
          /\ step'.spawned = 0
          /\ ~conns'[step'.conn].transcoder]_vars
====
